---- MODULE Spec2Model ----
(***************************************************************************)
(* Model of neat/channels/ionchannels_simplified.py: the ion channel       *)
(* compiler IonChannelSimplified (definition normalisation, default        *)
(* parameters, closure cache, evaluation API, persistence) and the         *)
(* singularity dispatcher _func.                                           *)
(*                                                                         *)
(* Symbolic expressions are syntax trees, numbers are exact rationals      *)
(* <<numerator, denominator>>.  A formula string of a definition is        *)
(* represented by the tree sympify parses it to, wrapped as                *)
(* <<"str", tree>>.                                                        *)
(***************************************************************************)
EXTENDS Integers, Sequences, FiniteSets, TLC

VARIABLES
    defn,       \* index of the channel definition (the subclass with its define())
    status,     \* "new" before construction, "ok", or the exception __init__ raised
    self,       \* __dict__ of the constructed channel (empty before construction)
    pickled,    \* the dict last returned by __getstate__ (empty if none)
    loaded,     \* __dict__ of the channel rebuilt by __setstate__ (empty if none)
    ret,        \* operation, inputs and outcome of the last API call
    call,       \* last calls of the dispatcher _func.__call__
    files,      \* lines of Ionchannels.h, Ionchannels.cc and the .mod file
    driver,     \* the registry and the position of the batch driver write()
    cpp         \* fields of an instance of the generated C++ class

vars == <<defn, status, self, pickled, loaded, ret, call, files, driver, cpp>>

\* what the Python API of a channel leaves alone: the generated output
gen == <<files, driver, cpp>>

-----------------------------------------------------------------------------
(* Exact rational arithmetic (the float arithmetic of the closures). *)

Abs(n) == IF n < 0 THEN -n ELSE n

RECURSIVE GCD(_, _)
GCD(a, b) == IF b = 0 THEN a ELSE GCD(b, a % b)

Rat(n, d) ==
    LET g == GCD(Abs(n), Abs(d))
        s == IF d < 0 THEN -1 ELSE 1
    IN  <<(s * n) \div g, (s * d) \div g>>

RAdd(p, q) == Rat(p[1] * q[2] + q[1] * p[2], p[2] * q[2])
RMul(p, q) == Rat(p[1] * q[1], p[2] * q[2])
RNeg(p) == <<-p[1], p[2]>>
RSub(p, q) == RAdd(p, RNeg(q))
RInv(p) == Rat(p[2], p[1])
RDiv(p, q) == RMul(p, RInv(q))

RECURSIVE RPow(_, _)
RPow(p, n) == IF n = 0 THEN <<1, 1>> ELSE RMul(p, RPow(p, n - 1))

-----------------------------------------------------------------------------
(* Outcome of a call: a value, or the exception it raised. *)

Return(x) == [exc |-> "none", val |-> x]
Raise(e) == [exc |-> e, val |-> <<>>]

-----------------------------------------------------------------------------
(* sympy expressions. *)

Float(q) == <<"Number", q>>
Num(n) == <<"Number", <<n, 1>>>>
symbols(nm) == <<"Symbol", nm>>
Add(a, b) == <<"Add", a, b>>
Mul(a, b) == <<"Mul", a, b>>
Div(a, b) == <<"Div", a, b>>
Neg(a) == <<"Neg", a>>
Pow(a, n) == <<"Pow", a, n>>
\* Piecewise((a, c > 0)): a where c is positive, no (expr, True) branch
Piecewise(a, c) == <<"Piecewise", a, c>>

\* a Python string (a dictionary key, an ion name)
pystr(n) == <<"pystr", n>>
\* the identifier a Symbol or a Python string spells
ident(x) == x[2]
\* str(x) of a Symbol or a string
str(x) == pystr(x[2])

RECURSIVE free_symbols(_)
free_symbols(e) ==
    CASE e[1] = "Number" -> {}
      [] e[1] = "Symbol" -> {e[2]}
      [] e[1] = "Neg"    -> free_symbols(e[2])
      [] e[1] = "Pow"    -> free_symbols(e[2])
      [] OTHER           -> free_symbols(e[2]) \cup free_symbols(e[3])

\* expr.subs(symbols(nm), val), val a number
RECURSIVE subs(_, _, _)
subs(e, nm, val) ==
    CASE e[1] = "Number" -> e
      [] e[1] = "Symbol" -> IF e[2] = nm THEN Float(val) ELSE e
      [] e[1] = "Neg"    -> <<"Neg", subs(e[2], nm, val)>>
      [] e[1] = "Pow"    -> <<"Pow", subs(e[2], nm, val), e[3]>>
      [] OTHER           -> <<e[1], subs(e[2], nm, val), subs(e[3], nm, val)>>

\* expr.subs(symbols(nm), symbols(new))
RECURSIVE rename(_, _, _)
rename(e, nm, new) ==
    CASE e[1] = "Number" -> e
      [] e[1] = "Symbol" -> IF e[2] = nm THEN symbols(new) ELSE e
      [] e[1] = "Neg"    -> <<"Neg", rename(e[2], nm, new)>>
      [] e[1] = "Pow"    -> <<"Pow", rename(e[2], nm, new), e[3]>>
      [] OTHER           -> <<e[1], rename(e[2], nm, new), rename(e[3], nm, new)>>

\* sympy's automatic evaluation of sums, products and quotients with numbers
IsNum(e) == e[1] = "Number"
IsZero(e) == e[1] = "Number" /\ e[2][1] = 0
IsOne(e) == e[1] = "Number" /\ e[2] = <<1, 1>>
AutoAdd(a, b) ==
    IF IsZero(a) THEN b ELSE IF IsZero(b) THEN a
    ELSE IF IsNum(a) /\ IsNum(b) THEN Float(RAdd(a[2], b[2])) ELSE Add(a, b)
AutoMul(a, b) ==
    IF IsZero(a) \/ IsZero(b) THEN Num(0)
    ELSE IF IsOne(a) THEN b ELSE IF IsOne(b) THEN a
    ELSE IF IsNum(a) /\ IsNum(b) THEN Float(RMul(a[2], b[2])) ELSE Mul(a, b)
AutoNeg(a) == IF IsNum(a) THEN Float(RNeg(a[2])) ELSE Neg(a)
AutoDiv(a, b) == IF IsZero(a) THEN Num(0) ELSE IF IsOne(b) THEN a ELSE Div(a, b)
AutoPow(a, n) == IF n = 0 THEN Num(1) ELSE IF n = 1 THEN a ELSE Pow(a, n)

\* sp.diff(expr, symbols(nm), 1)
RECURSIVE diff(_, _)
diff(e, nm) ==
    CASE e[1] = "Number" -> Num(0)
      [] e[1] = "Symbol" -> IF e[2] = nm THEN Num(1) ELSE Num(0)
      [] e[1] = "Neg"    -> AutoNeg(diff(e[2], nm))
      [] e[1] = "Add"    -> AutoAdd(diff(e[2], nm), diff(e[3], nm))
      [] e[1] = "Mul"    -> AutoAdd(AutoMul(diff(e[2], nm), e[3]),
                                    AutoMul(e[2], diff(e[3], nm)))
      [] e[1] = "Div"    -> LET du == diff(e[2], nm)
                                dw == diff(e[3], nm)
                            IN  IF IsZero(dw) THEN AutoDiv(du, e[3])
                                ELSE Div(AutoAdd(AutoMul(du, e[3]),
                                                 AutoNeg(AutoMul(e[2], dw))),
                                         Pow(e[3], 2))
      [] e[1] = "Pow"    -> AutoMul(AutoMul(Num(e[3]), AutoPow(e[2], e[3] - 1)),
                                    diff(e[2], nm))
      [] e[1] = "Piecewise" -> Piecewise(diff(e[2], nm), e[3])

\* Numeric value of an expression under an environment name -> number.
RECURSIVE evalf(_, _)
evalf(e, env) ==
    CASE e[1] = "Number" -> Return(e[2])
      [] e[1] = "Symbol" -> IF e[2] \in DOMAIN env THEN Return(env[e[2]])
                            ELSE Raise("NameError")
      [] e[1] = "Neg"    -> LET a == evalf(e[2], env)
                            IN  IF a.exc # "none" THEN a ELSE Return(RNeg(a.val))
      [] e[1] = "Pow"    -> LET a == evalf(e[2], env)
                            IN  IF a.exc # "none" THEN a ELSE Return(RPow(a.val, e[3]))
      [] OTHER ->
            LET a == evalf(e[2], env)
                b == evalf(e[3], env)
            IN  IF a.exc # "none" THEN a
                ELSE IF b.exc # "none" THEN b
                ELSE CASE e[1] = "Add" -> Return(RAdd(a.val, b.val))
                       [] e[1] = "Mul" -> Return(RMul(a.val, b.val))
                       [] e[1] = "Div" -> IF b.val[1] = 0 THEN Raise("ZeroDivisionError")
                                          ELSE Return(RDiv(a.val, b.val))

\* sp.sympify: a formula string is parsed, an expression or number is kept
sympify(x) == IF x[1] = "str" THEN x[2] ELSE x

\* sp.lambdify(args, expr): a closure over the positional parameter names
lambdify(args, expr) == [args |-> args, expr |-> expr]

\* f(*vals) for a lambdified closure f
Apply(f, vals) ==
    IF Len(vals) # Len(f.args) THEN Raise("TypeError")
    ELSE evalf(f.expr, [n \in {f.args[i] : i \in 1..Len(f.args)} |->
                          vals[CHOOSE i \in 1..Len(f.args) : f.args[i] = n]])

-----------------------------------------------------------------------------
(* Module constants. *)

\* CONC_DICT [mM]
CONC_DICT == (pystr("na") :> <<10, 1>>) @@ (pystr("k") :> <<272, 5>>)
             @@ (pystr("ca") :> <<1, 10000>>)

\* TEMP_DEFAULT
TEMP_DEFAULT == 36

\* E_ION_DICT
E_ION_DICT == (pystr("na") :> <<50, 1>>) @@ (pystr("k") :> <<-85, 1>>)
              @@ (pystr("ca") :> <<50, 1>>)

\* names bound at module level by the import statements
ModuleImports == {"sp", "np", "so", "os", "copy"}

-----------------------------------------------------------------------------
(* Python objects and dictionaries. *)

\* a dictionary / __dict__ with no entries
EmptyDict == [k \in {} |-> 0]

hasattr(o, a) == a \in DOMAIN o

\* an insertion-ordered dictionary is a sequence of <<key, value>> pairs
OKeys(od) == [i \in 1..Len(od) |-> od[i][1]]
OGet(od, k) == od[CHOOSE i \in 1..Len(od) : od[i][1] = k][2]

\* every order in which a set can be iterated
Orders(S) == {q \in [1..Cardinality(S) -> S] : \A x \in S : \E i \in DOMAIN q : q[i] = x}

-----------------------------------------------------------------------------
(* Channel definitions: what define() of a subclass sets on the object.    *)
(* A concentration attribute is a set of ion names or a dictionary         *)
(* {ion: default value}.                                                   *)

F(tree) == <<"str", tree>>
V == symbols("v")
Temp == symbols("temp")
Ca == symbols("ca")

ConcSet(S) == [type |-> "set", elems |-> S, items |-> <<>>]
ConcDict(od) == [type |-> "dict", elems |-> {}, items |-> od]

\* '((temp - 16.) / 10.)': 2 at the default 36 degC
Q10Temp == F(Div(Add(Temp, Num(-16)), Num(10)))

NaAlpha == (pystr("m") :> F(Add(V, Num(3)))) @@ (pystr("h") :> F(Num(1)))
NaBeta == (pystr("m") :> F(Num(2))) @@ (pystr("h") :> F(Add(V, Num(2))))
NaVarinf == (pystr("m") :> F(Div(Add(V, Num(3)), Add(V, Num(5)))))
            @@ (pystr("h") :> F(Div(Num(1), Add(V, Num(3)))))
NaTauinf == (pystr("m") :> F(Div(Num(1), Add(V, Num(5)))))
            @@ (pystr("h") :> F(Div(Num(1), Add(V, Num(3)))))
NaPOpen == F(Mul(symbols("h"), Pow(symbols("m"), 3)))

Channels == {"NaAB", "NaInf", "KTemp", "KTempInf", "HTemp", "SK", "NaDep", "Leak",
             "NoDicts", "AlphaOnly", "AlphaTau", "BetaLacksH", "TauLacksM",
             "BothLack", "NoConc"}

define(c) ==
    CASE c = "NaAB" ->
            [p_open |-> NaPOpen, alpha |-> NaAlpha, beta |-> NaBeta,
             q10 |-> Num(2), ion |-> "na", conc |-> ConcDict(<<>>)]
      [] c = "NaInf" ->
            [p_open |-> NaPOpen, varinf |-> NaVarinf, tauinf |-> NaTauinf,
             q10 |-> Num(2), ion |-> "na", conc |-> ConcDict(<<>>)]
      [] c = "KTemp" ->
            [p_open |-> F(Pow(symbols("n"), 2)),
             alpha |-> (pystr("n") :> F(Add(V, Num(1)))),
             beta |-> (pystr("n") :> F(Num(1))),
             q10 |-> Q10Temp, ion |-> "k", conc |-> ConcDict(<<>>)]
      [] c = "KTempInf" ->
            [p_open |-> F(Pow(symbols("n"), 2)),
             varinf |-> (pystr("n") :> F(Div(Add(V, Num(1)), Add(V, Num(2))))),
             tauinf |-> (pystr("n") :> F(Div(Num(1), Add(V, Num(2))))),
             q10 |-> Q10Temp, t |-> <<46, 1>>, ion |-> "k", conc |-> ConcDict(<<>>)]
      [] c = "HTemp" ->
            [p_open |-> F(symbols("q")),
             varinf |-> (pystr("q") :> F(Div(Temp, Add(Temp, Add(V, Num(1)))))),
             tauinf |-> (pystr("q") :> F(Num(3))),
             q10 |-> Q10Temp, ion |-> "", e |-> <<-40, 1>>, conc |-> ConcDict(<<>>)]
      [] c = "SK" ->
            [p_open |-> F(symbols("z")),
             varinf |-> (pystr("z") :> F(Div(Ca, Add(Ca, Num(1))))),
             tauinf |-> (pystr("z") :> F(Num(1))),
             ion |-> "k", conc |-> ConcDict(<<<<pystr("ca"), <<1, 2>>>>>>)]
      [] c = "NaDep" ->
            [p_open |-> F(symbols("m")),
             alpha |-> (pystr("m") :> F(Add(V, Num(1)))),
             beta |-> (pystr("m") :> F(symbols("na"))),
             ion |-> "k", conc |-> ConcSet({"na", "k"})]
      [] c = "Leak" ->
            [p_open |-> F(symbols("m")),
             alpha |-> (pystr("m") :> F(Add(V, Num(1)))),
             beta |-> (pystr("m") :> F(Num(1))),
             conc |-> ConcDict(<<>>)]
      [] c = "NoDicts" ->
            [p_open |-> NaPOpen, ion |-> "na", conc |-> ConcDict(<<>>)]
      [] c = "AlphaOnly" ->
            [p_open |-> NaPOpen, alpha |-> NaAlpha, ion |-> "na", conc |-> ConcDict(<<>>)]
      [] c = "AlphaTau" ->
            [p_open |-> NaPOpen, alpha |-> NaAlpha, tauinf |-> NaTauinf,
             ion |-> "na", conc |-> ConcDict(<<>>)]
      [] c = "BetaLacksH" ->
            [p_open |-> NaPOpen, alpha |-> NaAlpha,
             beta |-> (pystr("m") :> F(Num(2))),
             ion |-> "na", conc |-> ConcDict(<<>>)]
      [] c = "TauLacksM" ->
            [p_open |-> NaPOpen, varinf |-> NaVarinf,
             tauinf |-> (pystr("h") :> F(Div(Num(1), Add(V, Num(3))))),
             ion |-> "na", conc |-> ConcDict(<<>>)]
      [] c = "BothLack" ->
            [p_open |-> NaPOpen,
             alpha |-> (pystr("h") :> F(Num(1))),
             beta |-> (pystr("m") :> F(Num(2))),
             ion |-> "na", conc |-> ConcDict(<<>>)]
      [] c = "NoConc" ->
            [p_open |-> NaPOpen, alpha |-> NaAlpha, beta |-> NaBeta,
             q10 |-> Num(2), ion |-> "na"]
      \* varinf = {'m': 'Piecewise((v + 1., v > 0.))'}
      [] c = "Rectifier" ->
            [p_open |-> F(symbols("m")),
             varinf |-> (pystr("m") :> F(Piecewise(Add(V, Num(1)), V))),
             tauinf |-> (pystr("m") :> F(Num(2))),
             ion |-> "k", conc |-> ConcDict(<<>>)]

-----------------------------------------------------------------------------
(* IonChannelSimplified. *)

ClosureAttrs == {"f_statevar", "f_varinf", "f_tauinf", "f_p_open",
                 "dp_dx", "df_dv", "df_dx", "df_dc"}

\* _substituteDefaults(expr) for the default parameters dp
RECURSIVE SubsAll(_, _, _)
SubsAll(expr, dp, todo) ==
    IF todo = {} THEN expr
    ELSE LET param == CHOOSE x \in todo : TRUE
         IN  SubsAll(subs(expr, param, dp[param]), dp, todo \ {param})

_substituteDefaults(o, expr) == SubsAll(expr, o.default_params, DOMAIN o.default_params)

\* the Symbols of a sequence of names
SymSeq(names) == [i \in 1..Len(names) |-> symbols(names[i])]
SeqRange(q) == {q[i] : i \in 1..Len(q)}
IdentSeq(q) == [i \in 1..Len(q) |-> ident(q[i])]

\* _lambdifyChannel: the object with its closures (re)built
_lambdifyChannel(o) ==
    LET args == <<ident(o.sp_v)>> \o IdentSeq(o.statevars) \o IdentSeq(o.sp_c)
        args_ == <<ident(o.sp_v)>> \o IdentSeq(o.sp_c)
        svars == SeqRange(o.statevars)
        f_svar(sv) == _substituteDefaults(o, o.fstatevar[sv])
        n == Len(o.statevars)
        closures ==
            [f_p_open |-> lambdify(args, o.p_open),
             \* line 325 rebinds the attribute to the closure of each state
             \* variable in turn: the last one stays
             f_statevar |->
                IF n = 0 THEN [type |-> "CallDict", args |-> <<>>, expr |-> Num(0)]
                ELSE [type |-> "function", args |-> args,
                      expr |-> f_svar(o.statevars[n])],
             f_varinf |-> [sv \in svars |->
                              lambdify(args_, _substituteDefaults(o, o.varinf[sv]))],
             f_tauinf |-> [sv \in svars |->
                              lambdify(args_, _substituteDefaults(o, o.tauinf[sv]))],
             dp_dx |-> [sv \in svars |-> lambdify(args, diff(o.p_open, ident(sv)))],
             df_dv |-> [sv \in svars |-> lambdify(args, diff(f_svar(sv), ident(o.sp_v)))],
             df_dx |-> [sv \in svars |-> lambdify(args, diff(f_svar(sv), ident(sv)))],
             df_dc |-> [sv \in svars |->
                          [c \in SeqRange(o.sp_c) |->
                              lambdify(args, diff(f_svar(sv), ident(c)))]]]
    IN  closures @@ o

\* An exception ends __init__: every step passes on a failed outcome r.
Failed(r) == r.exc # "none"
Fail(exc, arg) == [exc |-> exc, arg |-> arg, obj |-> EmptyDict]
Done(o) == [exc |-> "none", arg |-> "", obj |-> o]

\* lines 183-203: define() has set s0; ion, q10, the temperature and voltage
\* symbols, the open probability and its state variables, which
\* list(free_symbols) yields in the order svorder
InitSymbols(s0, svorder) ==
    LET q10 == sympify(IF hasattr(s0, "q10") THEN s0.q10 ELSE F(Num(1)))
    IN  IF Cardinality(free_symbols(q10)) > 1 THEN Fail("AssertionError", "")
        ELSE Done([ion |-> IF hasattr(s0, "ion") THEN s0.ion ELSE "",
                   q10 |-> q10,
                   sp_t |-> IF free_symbols(q10) # {}
                            THEN symbols(CHOOSE x \in free_symbols(q10) : TRUE)
                            ELSE symbols("temp"),
                   sp_v |-> symbols("v"),
                   p_open |-> sympify(s0.p_open),
                   statevars |-> SymSeq(svorder)] @@ s0)

\* the state variables (by position) whose key is missing from d1 or from d2
Lacking(statevars, d1, d2) ==
    {i \in 1..Len(statevars) : \/ str(statevars[i]) \notin DOMAIN d1
                               \/ str(statevars[i]) \notin DOMAIN d2}

\* the KeyError of the first failing dictionary lookup
KeyError(statevars, S) ==
    Fail("KeyError", ident(statevars[CHOOSE i \in S : \A j \in S : i <= j]))

\* a bug: a missing rate constant is read as '0.' (dict.get with a default)
\* instead of raising
RatesFromAlphaBetaDefaulting(s) ==
    LET svars == SeqRange(s.statevars)
        get(d, sv) == IF str(sv) \in DOMAIN d THEN sympify(d[str(sv)]) ELSE Num(0)
        alpha == [sv \in svars |-> get(s.alpha, sv)] @@ s.alpha
        beta == [sv \in svars |-> get(s.beta, sv)] @@ s.beta
    IN  Done([alpha |-> alpha, beta |-> beta,
              varinf |-> [sv \in svars |-> Div(alpha[sv], Add(alpha[sv], beta[sv]))],
              tauinf |-> [sv \in svars |->
                            Div(Div(Num(1), s.q10), Add(alpha[sv], beta[sv]))]] @@ s)

\* lines 206-215: the rate constant form, converted to the internal
\* representation
RatesFromAlphaBeta(s) ==
    LET svars == SeqRange(s.statevars)
        alpha == [sv \in svars |-> sympify(s.alpha[str(sv)])] @@ s.alpha
        beta == [sv \in svars |-> sympify(s.beta[str(sv)])] @@ s.beta
    IN  IF Lacking(s.statevars, s.alpha, s.beta) # {}
        THEN KeyError(s.statevars, Lacking(s.statevars, s.alpha, s.beta))
        ELSE Done([alpha |-> alpha, beta |-> beta,
                   varinf |-> [sv \in svars |-> Div(alpha[sv], Add(alpha[sv], beta[sv]))],
                   tauinf |-> [sv \in svars |->
                                 Div(Div(Num(1), s.q10), Add(alpha[sv], beta[sv]))]] @@ s)

\* a bug: the time constant of the asymptotic form is stored as supplied,
\* without the division by q10
RatesFromInfNoQ10(s) ==
    LET svars == SeqRange(s.statevars)
    IN  IF Lacking(s.statevars, s.varinf, s.tauinf) # {}
        THEN KeyError(s.statevars, Lacking(s.statevars, s.varinf, s.tauinf))
        ELSE Done([varinf |-> [sv \in svars |-> sympify(s.varinf[str(sv)])] @@ s.varinf,
                   tauinf |-> [sv \in svars |-> sympify(s.tauinf[str(sv)])] @@ s.tauinf]
                  @@ s)

\* lines 216-220: the asymptotic form
RatesFromInf(s) ==
    LET svars == SeqRange(s.statevars)
    IN  IF Lacking(s.statevars, s.varinf, s.tauinf) # {}
        THEN KeyError(s.statevars, Lacking(s.statevars, s.varinf, s.tauinf))
        ELSE Done([varinf |-> [sv \in svars |-> sympify(s.varinf[str(sv)])] @@ s.varinf,
                   tauinf |-> [sv \in svars |-> Div(sympify(s.tauinf[str(sv)]), s.q10)]
                              @@ s.tauinf] @@ s)

\* lines 205-223: the rate functions
RateFunctions(r) ==
    IF Failed(r) THEN r
    ELSE IF hasattr(r.obj, "alpha") /\ hasattr(r.obj, "beta")
    THEN RatesFromAlphaBeta(r.obj)
    ELSE IF hasattr(r.obj, "tauinf") /\ hasattr(r.obj, "varinf")
    THEN RatesFromInf(r.obj)
    ELSE Fail("AttributeError",
              "Necessary attributes not defined, define either alpha and beta or tauinf and varinf.")

\* a bug: the sign of the state variable is lost
StateVarFunctionsSign(r) ==
    IF Failed(r) THEN r ELSE
    Done([fstatevar |-> [sv \in SeqRange(r.obj.statevars) |->
                            Div(Add(sv, r.obj.varinf[sv]), r.obj.tauinf[sv])]]
         @@ r.obj)

\* lines 225-229: the right hand side of the state variable equations
StateVarFunctions(r) ==
    IF Failed(r) THEN r ELSE
    Done([fstatevar |-> [sv \in SeqRange(r.obj.statevars) |->
                            Div(Add(Neg(sv), r.obj.varinf[sv]), r.obj.tauinf[sv])]]
         @@ r.obj)

\* lines 231-246: the concentrations, a set being iterated in the order corder
Concentrations(r, corder) ==
    IF Failed(r) THEN r ELSE
    LET s == r.obj
        Unknown == {i \in 1..Len(corder) : pystr(corder[i]) \notin DOMAIN CONC_DICT}
        WithConc(conc) == Done([conc |-> conc, sp_c |-> OKeys(conc.items)] @@ s)
    IN  IF ~hasattr(s, "conc")
        \* line 235 makes a dict, lines 237-240 apply the set operators |= and -=
        \* to it
        THEN Fail("TypeError", "unsupported operand type(s): 'dict' and 'set'")
        ELSE IF s.conc.type = "set"
        THEN IF Unknown # {}
             THEN Fail("KeyError", corder[CHOOSE i \in Unknown : \A j \in Unknown : i <= j])
             ELSE WithConc(ConcDict([i \in 1..Len(corder) |->
                              <<symbols(corder[i]), CONC_DICT[pystr(corder[i])]>>]))
        ELSE WithConc(s.conc)

\* lines 248-256: the default parameters
DefaultParams(r) ==
    IF Failed(r) THEN r ELSE
    LET s == r.obj
        temp == ident(s.sp_t) :> (IF hasattr(s, "t") THEN s.t ELSE <<TEMP_DEFAULT, 1>>)
    IN  IF hasattr(s, "e")
        THEN Done([default_params |-> ("e" :> s.e) @@ temp] @@ s)
        ELSE IF pystr(s.ion) \in DOMAIN E_ION_DICT
        THEN Done([default_params |-> ("e" :> E_ION_DICT[pystr(s.ion)]) @@ temp] @@ s)
        \* the handler of the KeyError calls warnings.warn
        ELSE IF "warnings" \in ModuleImports
        THEN Done([default_params |-> temp] @@ s)
        ELSE Fail("NameError", "name 'warnings' is not defined")

\* lines 258-259
Lambdified(r) == IF Failed(r) THEN r ELSE Done(_lambdifyChannel(r.obj))

\* __init__ of the subclass whose define() sets s0
__init__(s0, svorder, corder) ==
    Lambdified(DefaultParams(Concentrations(
        StateVarFunctions(RateFunctions(InitSymbols(s0, svorder))), corder)))

\* a bug: one of the del statements is missing
__getstate__KeepsDfDc(o) == [a \in DOMAIN o \ (ClosureAttrs \ {"df_dc"}) |-> o[a]]

\* __getstate__: the dict without the lambdified functions
__getstate__(o) == [a \in DOMAIN o \ ClosureAttrs |-> o[a]]

\* __setstate__(s): the object whose __dict__ is s, closures restored
__setstate__(s) == _lambdifyChannel(s)

\* a bug: the new values are also substituted into the stored time constants
setDefaultParamsSubstituting(o, kwargs) ==
    [o EXCEPT !.default_params = kwargs @@ o.default_params,
              !.tauinf = [k \in DOMAIN o.tauinf |->
                            IF k \in SeqRange(o.statevars)
                            THEN SubsAll(o.tauinf[k], kwargs, DOMAIN kwargs)
                            ELSE o.tauinf[k]]]

\* setDefaultParams(**kwargs)
setDefaultParams(o, kwargs) ==
    [o EXCEPT !.default_params = kwargs @@ o.default_params]

\* the first exception among a sequence of outcomes, if any
FirstExc(outs) ==
    IF \E i \in 1..Len(outs) : outs[i].exc # "none"
    THEN outs[CHOOSE i \in 1..Len(outs) :
                /\ outs[i].exc # "none"
                /\ \A j \in 1..(i - 1) : outs[j].exc = "none"].exc
    ELSE "none"

\* the values of a sequence of outcomes, unless one of them raised
Values(outs) ==
    IF FirstExc(outs) # "none" THEN Raise(FirstExc(outs))
    ELSE Return([i \in 1..Len(outs) |-> outs[i].val])

\* the dictionary {keys[i]: vals[i]}
DictOf(keys, vals) ==
    IF vals.exc # "none" THEN vals
    ELSE Return([k \in SeqRange(keys) |->
                    vals.val[CHOOSE i \in 1..Len(keys) : keys[i] = k]])

\* arg_list of _argsAsList once the state variable entries svargs (outcomes)
\* and the concentration entries cargs are known
ArgList(v, svargs, cargs) ==
    IF svargs.exc # "none" THEN svargs ELSE Return(<<v>> \o svargs.val \o cargs)

\* a bug: the concentration entries are put before the state variable entries
_argsAsListConcFirst(o, v, w_statevar, kwargs) ==
    ArgList(v,
            Return([i \in 1..Len(o.sp_c) |->
                      IF str(o.sp_c[i]) \in DOMAIN kwargs
                      THEN kwargs[str(o.sp_c[i])]
                      ELSE OGet(o.conc.items, o.sp_c[i])]),
            Values([i \in 1..(IF w_statevar THEN Len(o.statevars) ELSE 0) |->
                      IF str(o.statevars[i]) \in DOMAIN kwargs
                      THEN Return(kwargs[str(o.statevars[i])])
                      ELSE Apply(o.f_varinf[o.statevars[i]], <<v>>)]).val)

\* _argsAsList(v, w_statevar, **kwargs); kwargs maps Python strings to numbers
_argsAsList(o, v, w_statevar, kwargs) ==
    ArgList(v,
            Values([i \in 1..(IF w_statevar THEN Len(o.statevars) ELSE 0) |->
                      IF str(o.statevars[i]) \in DOMAIN kwargs
                      THEN Return(kwargs[str(o.statevars[i])])
                      \* state variable is not in kwargs: default based on voltage
                      ELSE Apply(o.f_varinf[o.statevars[i]], <<v>>)]),
            [i \in 1..Len(o.sp_c) |->
                IF str(o.sp_c[i]) \in DOMAIN kwargs
                THEN kwargs[str(o.sp_c[i])]
                \* ion is not in kwargs: stored default value
                ELSE OGet(o.conc.items, o.sp_c[i])])

\* f(*args) when building args may have raised
Call(f, args) == IF args.exc # "none" THEN args ELSE Apply(f, args.val)

\* CallDict.__call__(*args): every item called on the same arguments,
\* the items in key order keys
CallDict(cd, keys, args) ==
    IF args.exc # "none" THEN args
    ELSE DictOf(keys, Values([i \in 1..Len(keys) |-> Apply(cd[keys[i]], args.val)]))

\* a CallDict whose items are CallDicts with the keys inner
CallDictOfDicts(cd, keys, inner, args) ==
    IF args.exc # "none" THEN args
    ELSE DictOf(keys, Values([i \in 1..Len(keys) |-> CallDict(cd[keys[i]], inner, args)]))

\* the tuple of three results
Tuple3(a, b, c) == Values(<<a, b, c>>)

computePOpen(o, v, kwargs) == Call(o.f_p_open, _argsAsList(o, v, TRUE, kwargs))

DerivativesAt(o, args) ==
    Tuple3(CallDict(o.dp_dx, o.statevars, args),
           CallDict(o.df_dv, o.statevars, args),
           CallDict(o.df_dx, o.statevars, args))

computeDerivatives(o, v, kwargs) == DerivativesAt(o, _argsAsList(o, v, TRUE, kwargs))

computeDerivativesConc(o, v, kwargs) ==
    CallDictOfDicts(o.df_dc, o.statevars, o.sp_c, _argsAsList(o, v, TRUE, kwargs))

computeVarinf(o, v) ==
    CallDict(o.f_varinf, o.statevars, _argsAsList(o, v, FALSE, EmptyDict))

computeTauinf(o, v) ==
    CallDict(o.f_tauinf, o.statevars, _argsAsList(o, v, FALSE, EmptyDict))

-----------------------------------------------------------------------------
(* The singularity dispatcher _func.  Voltages are integers in units of    *)
(* 1e-4 mV.                                                                *)

\* 0.001 mV, the tolerance of the float branch
TolFloat == 10
\* 0.0001 mV, the tolerance of the array branch
TolArray == 1

\* _func.__call__ with args[0] = vv, a float (x of length 1) or an ndarray:
\* which of eval_func_vtrap / eval_func_aux produces each element
_func__call__(e_trap, vv) ==
    IF vv.type = "float"
    THEN IF Abs(vv.x[1] - e_trap) < TolFloat
         THEN <<"eval_func_vtrap">>
         ELSE <<"eval_func_aux">>
    ELSE LET bool_vtrap == [i \in 1..Len(vv.x) |-> Abs(vv.x[i] - e_trap) < TolArray]
         IN  [i \in 1..Len(vv.x) |->
                IF bool_vtrap[i] THEN "eval_func_vtrap" ELSE "eval_func_aux"]

-----------------------------------------------------------------------------
(* Inputs. *)

\* largest sampled voltage [mV]
MaxV == 1
Volts == {<<i, 1>> : i \in 0..MaxV}

\* values given for overridden state variables and concentrations
OverrideValues == {<<1, 3>>}

\* every **kwargs of an evaluation call: overrides for a subset of the state
\* variables and concentrations
Kwargs(o) ==
    LET keys == {str(x) : x \in SeqRange(o.statevars) \cup SeqRange(o.sp_c)}
    IN  UNION {[S -> OverrideValues] : S \in SUBSET keys}

\* the **kwargs of setDefaultParams: a temperature and a reversal
ParamKwargs == {("temp" :> <<26, 1>>) @@ ("e" :> <<-85, 1>>)}

\* singular voltage of the wrapped rate function, and sampled distances from it
ETrap == 38 * 10000
\* offsets are sampled every 0.0005 mV, up to MaxOffset samples on each side
MaxOffset == 2
MaxArrayLen == 2
Offsets == {5 * k : k \in (0 - MaxOffset)..MaxOffset}
Arrays == UNION {[1..n -> {(0 - ETrap) + d : d \in Offsets}] : n \in 1..MaxArrayLen}

NoRet == [op |-> "none", on |-> "", v |-> <<0, 1>>, kwargs |-> EmptyDict,
          out |-> Raise("none")]
NoCall == [vv |-> <<>>, array |-> <<>>, float |-> <<>>]
\* no output file exists, write() is not running, no C++ object exists
NoFiles == [h |-> <<>>, cc |-> <<>>, mod |-> <<>>]
NoDriver == [registry |-> <<>>, pos |-> 0, state |-> "idle"]
NoInstance == [class |-> ""]

-----------------------------------------------------------------------------
(* The state machine. *)

Init ==
    /\ defn \in Channels
    /\ status = "new"
    /\ self = EmptyDict
    /\ pickled = EmptyDict
    /\ loaded = EmptyDict
    /\ ret = NoRet
    /\ call = NoCall
    /\ files = NoFiles
    /\ driver = NoDriver
    /\ cpp = NoInstance

Obj(on) == IF on = "self" THEN self ELSE loaded
Live == {on \in {"self", "loaded"} : DOMAIN Obj(on) # {}}

\* chan = channel_class()
Construct ==
    /\ status = "new"
    /\ \E s0 \in {define(defn)} :
       \E svorder \in Orders(free_symbols(sympify(s0.p_open))) :
       \E corder \in Orders(IF hasattr(s0, "conc") THEN s0.conc.elems ELSE {}) :
       \E r \in {__init__(s0, svorder, corder)} :
          /\ status' = IF r.exc = "none" THEN "ok" ELSE r.exc
          /\ self' = r.obj
          /\ ret' = [NoRet EXCEPT !.op = "__init__", !.on = "self",
                                  !.out = [exc |-> r.exc, val |-> r.arg]]
    /\ UNCHANGED <<gen, defn, pickled, loaded, call>>

SetDefaultParams ==
    /\ status = "ok"
    /\ \E kwargs \in ParamKwargs :
          /\ self' = setDefaultParams(self, kwargs)
          /\ ret' = [NoRet EXCEPT !.op = "setDefaultParams", !.on = "self",
                                  !.kwargs = kwargs]
    /\ UNCHANGED <<gen, defn, status, pickled, loaded, call>>

ComputePOpen ==
    /\ \E on \in Live : \E v \in Volts : \E kwargs \in Kwargs(Obj(on)) :
          ret' = [op |-> "computePOpen", on |-> on, v |-> v, kwargs |-> kwargs,
                  out |-> computePOpen(Obj(on), v, kwargs)]
    /\ UNCHANGED <<gen, defn, status, self, pickled, loaded, call>>

ComputeDerivatives ==
    /\ status = "ok"
    /\ \E v \in Volts : \E kwargs \in Kwargs(self) :
          ret' = [op |-> "computeDerivatives", on |-> "self", v |-> v,
                  kwargs |-> kwargs, out |-> computeDerivatives(self, v, kwargs)]
    /\ UNCHANGED <<gen, defn, status, self, pickled, loaded, call>>

ComputeDerivativesConc ==
    /\ status = "ok"
    /\ \E v \in Volts : \E kwargs \in Kwargs(self) :
          ret' = [op |-> "computeDerivativesConc", on |-> "self", v |-> v,
                  kwargs |-> kwargs, out |-> computeDerivativesConc(self, v, kwargs)]
    /\ UNCHANGED <<gen, defn, status, self, pickled, loaded, call>>

ComputeVarinf ==
    /\ status = "ok"
    /\ \E v \in Volts :
          ret' = [op |-> "computeVarinf", on |-> "self", v |-> v, kwargs |-> EmptyDict,
                  out |-> computeVarinf(self, v)]
    /\ UNCHANGED <<gen, defn, status, self, pickled, loaded, call>>

ComputeTauinf ==
    /\ status = "ok"
    /\ \E v \in Volts :
          ret' = [op |-> "computeTauinf", on |-> "self", v |-> v, kwargs |-> EmptyDict,
                  out |-> computeTauinf(self, v)]
    /\ UNCHANGED <<gen, defn, status, self, pickled, loaded, call>>

\* pickle.dumps(chan)
GetState ==
    /\ status = "ok"
    /\ pickled' = __getstate__(self)
    /\ ret' = [NoRet EXCEPT !.op = "__getstate__", !.on = "self"]
    /\ UNCHANGED <<gen, defn, status, self, loaded, call>>

\* pickle.loads(...)
SetState ==
    /\ DOMAIN pickled # {}
    /\ loaded' = __setstate__(pickled)
    /\ ret' = [NoRet EXCEPT !.op = "__setstate__", !.on = "loaded"]
    /\ UNCHANGED <<gen, defn, status, self, pickled, call>>

Next ==
    \/ Construct
    \/ SetDefaultParams
    \/ ComputePOpen
    \/ ComputeDerivatives
    \/ ComputeDerivativesConc
    \/ ComputeVarinf
    \/ ComputeTauinf
    \/ GetState
    \/ SetState

Spec == Init /\ [][Next]_vars

\* f(vv) with vv an ndarray
CallArray ==
    /\ \E xs \in Arrays :
          call' = [vv |-> xs,
                   array |-> _func__call__(0 - ETrap, [type |-> "ndarray", x |-> xs]),
                   float |-> [i \in 1..Len(xs) |-> "none"]]
    /\ UNCHANGED <<gen, defn, status, self, pickled, loaded, ret>>

\* f(vv[i]) with the element a float
CallFloat ==
    /\ \E i \in 1..Len(call.vv) :
          call' = [call EXCEPT !.float[i] =
                     _func__call__(0 - ETrap, [type |-> "float", x |-> <<call.vv[i]>>])[1]]
    /\ UNCHANGED <<gen, defn, status, self, pickled, loaded, ret>>

InitFunc ==
    /\ defn = "NaAB"
    /\ status = "new"
    /\ self = EmptyDict
    /\ pickled = EmptyDict
    /\ loaded = EmptyDict
    /\ ret = NoRet
    /\ call = NoCall
    /\ files = NoFiles
    /\ driver = NoDriver
    /\ cpp = NoInstance

NextFunc == CallArray \/ CallFloat

SpecFunc == InitFunc /\ [][NextFunc]_vars

-----------------------------------------------------------------------------
(* numpy values and the linearisation API.  A value has shape <<>> (a      *)
(* float or 0-d array) or <<n>> (an array of n elements).                  *)

Scalar(q) == [shape |-> <<>>, x |-> <<q>>]
Array(xs) == [shape |-> <<Len(xs)>>, x |-> xs]
Size(a) == Len(a.x)
Elem(a, i) == IF Size(a) = 1 THEN a.x[1] ELSE a.x[i]

\* numpy broadcasting of two shapes of at most one dimension
Broadcastable(s, t) == s = <<>> \/ t = <<>> \/ s = t \/ s = <<1>> \/ t = <<1>>
BroadcastShape(s, t) == IF s = <<>> \/ (s = <<1>> /\ t # <<>>) THEN t ELSE s

\* a op b elementwise, a and b outcomes
Binary(Op(_, _), a, b) ==
    IF a.exc # "none" THEN a
    ELSE IF b.exc # "none" THEN b
    ELSE IF ~Broadcastable(a.val.shape, b.val.shape) THEN Raise("ValueError")
    ELSE Return([shape |-> BroadcastShape(a.val.shape, b.val.shape),
                 x |-> [i \in 1..(IF Size(a.val) > Size(b.val) THEN Size(a.val)
                                  ELSE Size(b.val)) |->
                          Op(Elem(a.val, i), Elem(b.val, i))]])

\* a * 1e3
Times1e3(a) == Binary(RMul, a, Return(Scalar(<<1000, 1>>)))

\* lin_f += t: the sum has to fit the shape of lin_f
InPlaceAdd(lin_f, t) ==
    IF lin_f.exc # "none" THEN lin_f
    ELSE IF t.exc # "none" THEN t
    ELSE IF \/ ~Broadcastable(lin_f.val.shape, t.val.shape)
            \/ BroadcastShape(lin_f.val.shape, t.val.shape) # lin_f.val.shape
    THEN Raise("ValueError")
    ELSE Binary(RAdd, lin_f, t)

\* np.zeros_like(a)
zeros_like(a) == [shape |-> a.shape, x |-> [i \in 1..Size(a) |-> <<0, 1>>]]

\* a lambdified expression returns an array only if it mentions an argument
\* that is an array: the voltage, or a state variable defaulted by a
\* f_varinf closure that mentions the voltage
DependsOnV(o, expr, kwargs) ==
    \E nm \in free_symbols(expr) :
        \/ nm = ident(o.sp_v)
        \/ \E sv \in SeqRange(o.statevars) :
              /\ ident(sv) = nm
              /\ str(sv) \notin DOMAIN kwargs
              /\ ident(o.sp_v) \in free_symbols(o.f_varinf[sv].expr)

\* the value a closure of expression expr returns for the voltages v, vals
\* being its values element by element
Gather(o, expr, v, kwargs, vals) ==
    IF v.shape # <<>> /\ DependsOnV(o, expr, kwargs)
    THEN Return([shape |-> v.shape, x |-> vals])
    ELSE Return(Scalar(vals[1]))

\* the loop of computeLinear over the state variables
RECURSIVE Accumulate(_, _, _)
Accumulate(lin_f, i, terms) ==
    IF i > Len(terms) THEN lin_f
    ELSE Accumulate(InPlaceAdd(lin_f, terms[i]), i + 1, terms)

\* computeLinear once computeDerivatives has returned D[j] for element j of v
LinearFrom(o, v, freqs, kwargs, D) ==
    IF FirstExc(D) # "none" THEN Raise(FirstExc(D))
    ELSE Accumulate(Return(zeros_like(freqs)), 1,
            [i \in 1..Len(o.statevars) |->
                Binary(RDiv,
                    Binary(RMul,
                        Gather(o, o.dp_dx[o.statevars[i]].expr, v, kwargs,
                               [j \in 1..Size(v) |-> D[j].val[1][o.statevars[i]]]),
                        Times1e3(Gather(o, o.df_dv[o.statevars[i]].expr, v, kwargs,
                               [j \in 1..Size(v) |-> D[j].val[2][o.statevars[i]]]))),
                    Binary(RSub, Return(freqs),
                        Times1e3(Gather(o, o.df_dx[o.statevars[i]].expr, v, kwargs,
                               [j \in 1..Size(v) |-> D[j].val[3][o.statevars[i]]]))))])

\* computeLinear(v, freqs, **kwargs); the result of freqs.reshape is dropped
computeLinear(o, v, freqs, kwargs) ==
    LinearFrom(o, v, freqs, kwargs,
               [j \in 1..Size(v) |-> computeDerivatives(o, v.x[j], kwargs)])

\* computeLinearConc once computeDerivatives has returned D[j] and
\* computeDerivativesConc C[j] for element j of v
LinearConcFrom(o, v, freqs, ion, kwargs, D, C) ==
    IF FirstExc(D) # "none" THEN Raise(FirstExc(D))
    ELSE IF FirstExc(C) # "none" THEN Raise(FirstExc(C))
    ELSE IF Len(o.statevars) > 0 /\ pystr(ion) \notin SeqRange(o.sp_c)
    THEN Raise("KeyError")
    ELSE Accumulate(Return(zeros_like(freqs)), 1,
            [i \in 1..Len(o.statevars) |->
                Binary(RDiv,
                    Binary(RMul,
                        Gather(o, o.dp_dx[o.statevars[i]].expr, v, kwargs,
                               [j \in 1..Size(v) |-> D[j].val[1][o.statevars[i]]]),
                        Times1e3(Gather(o, o.df_dc[o.statevars[i]][pystr(ion)].expr,
                               v, kwargs,
                               [j \in 1..Size(v) |->
                                   C[j].val[o.statevars[i]][pystr(ion)]]))),
                    Binary(RSub, Return(freqs),
                        Times1e3(Gather(o, o.df_dx[o.statevars[i]].expr, v, kwargs,
                               [j \in 1..Size(v) |-> D[j].val[3][o.statevars[i]]]))))])

\* computeLinearConc(v, freqs, ion, **kwargs)
computeLinearConc(o, v, freqs, ion, kwargs) ==
    LinearConcFrom(o, v, freqs, ion, kwargs,
                   [j \in 1..Size(v) |-> computeDerivatives(o, v.x[j], kwargs)],
                   [j \in 1..Size(v) |-> computeDerivativesConc(o, v.x[j], kwargs)])

\* computePOpen for a numpy voltage
POpenFrom(o, v, kwargs, P) ==
    IF FirstExc(P) # "none" THEN Raise(FirstExc(P))
    ELSE Gather(o, o.f_p_open.expr, v, kwargs, [j \in 1..Size(v) |-> P[j].val])

\* a bug: an explicitly passed e is ignored when a default is stored
_getReversalStored(o, e) ==
    IF "e" \in DOMAIN o.default_params THEN Return(o.default_params["e"])
    ELSE IF e # <<>> THEN Return(e[1])
    ELSE Raise("KeyError")

\* _getReversal(e); e is <<>> for None and <<x>> for the number x
_getReversal(o, e) ==
    IF e = <<>>
    THEN IF "e" \in DOMAIN o.default_params THEN Return(o.default_params["e"])
         ELSE Raise("KeyError")
    ELSE Return(e[1])

\* (e - v) * lin - p_open, e the outcome of _getReversal
LinSumFrom(e, v, lin, p_open) ==
    IF e.exc # "none" THEN e
    ELSE Binary(RSub, Binary(RMul, Binary(RSub, Return(Scalar(e.val)), Return(v)), lin),
                p_open)

\* computeLinSum(v, freqs, e, **kwargs)
computeLinSum(o, v, freqs, e, kwargs) ==
    LinSumFrom(_getReversal(o, e), v, computeLinear(o, v, freqs, kwargs),
               POpenFrom(o, v, kwargs,
                         [j \in 1..Size(v) |-> computePOpen(o, v.x[j], kwargs)]))

\* (e - v) * lin, e the outcome of _getReversal
LinConcFrom(e, v, lin) ==
    IF e.exc # "none" THEN e
    ELSE Binary(RMul, Binary(RSub, Return(Scalar(e.val)), Return(v)), lin)

\* computeLinConc(v, freqs, ion, e, **kwargs)
computeLinConc(o, v, freqs, ion, e, kwargs) ==
    LinConcFrom(_getReversal(o, e), v, computeLinearConc(o, v, freqs, ion, kwargs))

-----------------------------------------------------------------------------
(* The linearisation API on a constructed channel. *)

\* number of sampled frequencies [Hz]
MaxFreqs == 3
FreqInputs == {Scalar(<<1, 1>>)}
              \cup {Array([i \in 1..k |-> <<i, 1>>]) : k \in 1..MaxFreqs}
VoltInputs == {Scalar(v) : v \in Volts}
              \cup {Array([i \in 1..k |-> <<i - 1, 1>>]) : k \in 1..(MaxV + 1)}
\* e: None or a reversal [mV]
EInputs == {<<>>, <<<<-30, 1>>>>}
IonInputs == {"ca", "na"}
\* the **kwargs of a linearisation call: no override, or one for every state
\* variable and concentration
LinKwargs(o) ==
    {kwargs \in Kwargs(o) :
        DOMAIN kwargs \in {{}, {str(x) : x \in SeqRange(o.statevars) \cup SeqRange(o.sp_c)}}}
LinChannels == {"KTemp", "KTempInf", "HTemp", "SK", "NaDep", "Leak"}

LinRet(op, v, freqs, ion, e, kwargs, out) ==
    [op |-> op, on |-> "self", v |-> v, freqs |-> freqs, ion |-> ion, e |-> e,
     kwargs |-> kwargs, out |-> out]

ComputeLinear ==
    /\ status = "ok"
    /\ \E v \in VoltInputs : \E freqs \in FreqInputs : \E kwargs \in LinKwargs(self) :
          ret' = LinRet("computeLinear", v, freqs, "", <<>>, kwargs,
                        computeLinear(self, v, freqs, kwargs))
    /\ UNCHANGED <<gen, defn, status, self, pickled, loaded, call>>

ComputeLinearConc ==
    /\ status = "ok"
    /\ \E v \in VoltInputs : \E freqs \in FreqInputs : \E ion \in IonInputs :
       \E kwargs \in LinKwargs(self) :
          ret' = LinRet("computeLinearConc", v, freqs, ion, <<>>, kwargs,
                        computeLinearConc(self, v, freqs, ion, kwargs))
    /\ UNCHANGED <<gen, defn, status, self, pickled, loaded, call>>

ComputeLinSum ==
    /\ status = "ok"
    /\ \E v \in Volts : \E e \in EInputs : \E kwargs \in Kwargs(self) :
          ret' = LinRet("computeLinSum", Scalar(v), Scalar(<<1, 1>>), "", e, kwargs,
                        computeLinSum(self, Scalar(v), Scalar(<<1, 1>>), e, kwargs))
    /\ UNCHANGED <<gen, defn, status, self, pickled, loaded, call>>

ComputeLinConc ==
    /\ status = "ok"
    /\ \E v \in Volts : \E ion \in IonInputs : \E e \in EInputs :
       \E kwargs \in Kwargs(self) :
          ret' = LinRet("computeLinConc", Scalar(v), Scalar(<<1, 1>>), ion, e, kwargs,
                        computeLinConc(self, Scalar(v), Scalar(<<1, 1>>), ion, e, kwargs))
    /\ UNCHANGED <<gen, defn, status, self, pickled, loaded, call>>

InitLin ==
    /\ defn \in LinChannels
    /\ status = "new"
    /\ self = EmptyDict
    /\ pickled = EmptyDict
    /\ loaded = EmptyDict
    /\ ret = NoRet
    /\ call = NoCall
    /\ files = NoFiles
    /\ driver = NoDriver
    /\ cpp = NoInstance

NextLin ==
    \/ Construct
    \/ SetDefaultParams
    \/ ComputeLinear
    \/ ComputeLinearConc

SpecLin == InitLin /\ [][NextLin]_vars

NextRev ==
    \/ Construct
    \/ SetDefaultParams
    \/ ComputeLinSum
    \/ ComputeLinConc

SpecRev == InitLin /\ [][NextRev]_vars

-----------------------------------------------------------------------------
(* Code generation.  The text of a file is the sequence of the strings     *)
(* passed to write(): each a format and its arguments.  The printed form   *)
(* of an expression is the expression.                                     *)

\* sp.printing.ccode(expr): the C printer raises ValueError for a Piecewise
\* without an (expr, True) branch
RECURSIVE Printable(_)
Printable(e) ==
    CASE e[1] = "Number"    -> TRUE
      [] e[1] = "Symbol"    -> TRUE
      [] e[1] = "Piecewise" -> FALSE
      [] e[1] = "Neg"       -> Printable(e[2])
      [] e[1] = "Pow"       -> Printable(e[2])
      [] OTHER              -> Printable(e[2]) /\ Printable(e[3])

ccode(e) == IF Printable(e) THEN Return(<<"code", e>>) ELSE Raise("ValueError")

\* the names 'v_' + x, 'm_' + x and 'm_' + x + '_inf' of a state variable x
v_(x) ==
    CASE x = "m" -> "v_m" [] x = "h" -> "v_h" [] x = "n" -> "v_n"
      [] x = "q" -> "v_q" [] x = "z" -> "v_z"
m_(x) ==
    CASE x = "m" -> "m_m" [] x = "h" -> "m_h" [] x = "n" -> "m_n"
      [] x = "q" -> "m_q" [] x = "z" -> "m_z"
m_inf(x) ==
    CASE x = "m" -> "m_m_inf" [] x = "h" -> "m_h_inf" [] x = "n" -> "m_n_inf"
      [] x = "q" -> "m_q_inf" [] x = "z" -> "m_z_inf"

\* one written string
Line(s, a) == [s |-> s, a |-> a]

\* f.write(...) of a string built without printing an expression
Write(f, s, a) == [f |-> f, out |-> Return(Line(s, a))]

\* f.write(...) of a string that holds ccode(expr) for every expr of exprs:
\* nothing is written when a ccode raises
WriteCode(f, s, a, exprs) ==
    [f |-> f,
     out |-> IF \E i \in DOMAIN exprs : ccode(exprs[i]).exc # "none"
             THEN Raise("ValueError")
             ELSE Return(Line(s, a \o [i \in DOMAIN exprs |-> ccode(exprs[i]).val]))]

\* ccode(expr) evaluated between two writes
Code(e) == [f |-> "", out |-> ccode(e)]

RECURSIVE Flatten(_)
Flatten(ss) == IF ss = <<>> THEN <<>> ELSE Head(ss) \o Flatten(Tail(ss))

\* the steps of a loop over the sequence q
ForEach(q, Body(_, _)) == Flatten([i \in 1..Len(q) |-> Body(i, q[i])])

\* The steps of a writer run until the first one raises.  The file objects
\* are not closed then; what was written is flushed when they are finalised.
Raising(steps) == {i \in 1..Len(steps) : steps[i].out.exc # "none"}
Ran(steps) ==
    IF Raising(steps) = {} THEN steps
    ELSE SubSeq(steps, 1, (CHOOSE i \in Raising(steps) :
                              \A j \in Raising(steps) : i <= j) - 1)
Raised(steps) == IF Raising(steps) = {} THEN "none" ELSE "ValueError"
IsTo(f, step) == step.f = f
Text(steps, f) ==
    LET w == SelectSeq(Ran(steps), LAMBDA step : IsTo(f, step))
    IN  [i \in 1..Len(w) |-> w[i].out.val]

\* the name c + 'i' of a concentration c
ci(c) == CASE c = "ca" -> "cai" [] c = "na" -> "nai" [] c = "k" -> "ki"

\* vi.replace(str(c), str(c) + 'i') for every concentration
RECURSIVE Replaced(_, _)
Replaced(e, cs) ==
    IF cs = <<>> THEN e
    ELSE Replaced(rename(e, Head(cs), ci(Head(cs))), Tail(cs))

\* a bug: the STATE block leaves out the last state variable
ModStateDropsLast(sv) ==
    <<Write("mod", "STATE {", <<>>)>>
    \o ForEach(SubSeq(sv, 1, Len(sv) - 1), LAMBDA i, var : <<Write("mod", "    %s", <<var>>)>>)
    \o <<Write("mod", "}", <<>>)>>

\* the STATE block of the mod file
ModState(sv) ==
    <<Write("mod", "STATE {", <<>>)>>
    \o ForEach(sv, LAMBDA i, var : <<Write("mod", "    %s", <<var>>)>>)
    \o <<Write("mod", "}", <<>>)>>

\* writeModFile(path, g, e) of an object of class cname: the steps
writeModFileSteps(o, cname, g, e) ==
    LET sv == IdentSeq(o.statevars)
        cs == IdentSeq(o.sp_c)
        PerConc(s) == ForEach(cs, LAMBDA i, c : <<Write("mod", s, <<c>>)>>)
        PerVar(s) == ForEach(sv, LAMBDA i, var : <<Write("mod", s, <<var>>)>>)
    IN  <<Write("mod", ": This mod file is automaticaly generated", <<>>),
          Write("mod", "NEURON {", <<>>),
          Write("mod", "    SUFFIX I%s", <<cname>>),
          IF o.ion = "" THEN Write("mod", "    NONSPECIFIC_CURRENT i", <<>>)
          ELSE Write("mod", "    USEION %s WRITE i%s", <<o.ion, o.ion>>)>>
        \o PerConc("    USEION %s READ %si")
        \o <<Write("mod", "    RANGE  g, e", <<>>),
             Write("mod", "    GLOBAL %s, %s", <<sv, sv>>),
             Write("mod", "    THREADSAFE", <<>>),
             Write("mod", "}", <<>>),
             Write("mod", "PARAMETER {", <<>>),
             Write("mod", "    g = %s (S/cm2)", <<g>>),
             Write("mod", "    e = %s (mV)", <<e>>)>>
        \o PerConc("    %si (mM)")
        \o <<Write("mod", "    celsius (degC)", <<>>),
             Write("mod", "}", <<>>),
             Write("mod", "UNITS {", <<>>),
             Write("mod", "    (mA) = (milliamp)", <<>>),
             Write("mod", "    (mV) = (millivolt)", <<>>),
             Write("mod", "    (mM) = (milli/liter)", <<>>),
             Write("mod", "}", <<>>),
             Write("mod", "ASSIGNED {", <<>>),
             Write("mod", "    i%s (mA/cm2)", <<o.ion>>)>>
        \o ForEach(sv, LAMBDA i, var :
              <<Write("mod", "    %s_inf", <<var>>),
                Write("mod", "    tau_%s (ms)", <<var>>)>>)
        \o <<Write("mod", "    v (mV)", <<>>),
             Write("mod", "    %s (degC)", <<ident(o.sp_t)>>),
             Write("mod", "}", <<>>)>>
        \o ModState(sv)
        \o <<\* calcstring
             Code(o.p_open),
             Write("mod", "BREAKPOINT {", <<>>),
             Write("mod", "    SOLVE states METHOD cnexp", <<>>),
             WriteCode("mod", "    i%s = g * (%s) * (v - e)", <<o.ion>>, <<o.p_open>>),
             Write("mod", "}", <<>>),
             Write("mod", "INITIAL {", <<>>),
             Write("mod", "    rates(v%s)", <<cs>>)>>
        \o PerVar("    %s = %s_inf")
        \o <<Write("mod", "}", <<>>),
             Write("mod", "DERIVATIVE states {", <<>>),
             Write("mod", "    rates(v%s)", <<cs>>)>>
        \o PerVar("    %s' = (%s_inf - %s) /  tau_%s")
        \o <<Write("mod", "}", <<>>),
             Write("mod", "PROCEDURE rates(v%s) {", <<cs>>),
             Write("mod", "    %s = celsius", <<ident(o.sp_t)>>)>>
        \o ForEach(o.statevars, LAMBDA i, svar :
              <<Code(o.varinf[svar]),
                Code(o.tauinf[svar]),
                WriteCode("mod", "    %s_inf = %s", <<ident(svar)>>,
                          <<Replaced(o.varinf[svar], cs)>>),
                WriteCode("mod", "    tau_%s = %s", <<ident(svar)>>,
                          <<Replaced(o.tauinf[svar], cs)>>)>>)
        \o <<Write("mod", "}", <<>>)>>

\* expr with every state variable sv[i] replaced by the symbol names[i]
RECURSIVE Renamed(_, _, _)
Renamed(e, sv, names) ==
    IF sv = <<>> THEN e
    ELSE Renamed(rename(e, Head(sv), Head(names)), Tail(sv), Tail(names))

\* a bug: the held voltage is never used
NewtonVoltageNeverHeld(x) ==
    <<Write("cc", "    double v_%s;", <<x>>),
      Write("cc", "    if(m_v_%s > 1000.){", <<x>>),
      Write("cc", "        v_%s = v;", <<x>>),
      Write("cc", "    } else{", <<>>),
      Write("cc", "        v_%s = v;", <<x>>),
      Write("cc", "    }", <<>>)>>

\* lines 841-845: fNewton assigns the dynamic or the fixed voltage to v_x
NewtonVoltage(x) ==
    <<Write("cc", "    double v_%s;", <<x>>),
      Write("cc", "    if(m_v_%s > 1000.){", <<x>>),
      Write("cc", "        v_%s = v;", <<x>>),
      Write("cc", "    } else{", <<>>),
      Write("cc", "        v_%s = m_v_%s;", <<x>>),
      Write("cc", "    }", <<>>)>>

\* writeCPPCode(path, e_rev) of an object of class cname: the steps
writeCPPCodeSteps(o, cname) ==
    LET sv == IdentSeq(o.statevars)
        Decl(s) == ForEach(sv, LAMBDA i, x : <<Write("h", s, <<x>>)>>)
        varinf_(svar) == _substituteDefaults(o, o.varinf[svar])
        tauinf_(svar) == _substituteDefaults(o, o.tauinf[svar])
        \* varinf_ with the voltage replaced by the symbol v_x
        held(svar) == rename(varinf_(svar), ident(o.sp_v), v_(ident(svar)))
        Override(s) == Write("h", s, <<>>)
    IN  <<Write("h", "class %s: public IonChannel{", <<cname>>),
          Write("h", "private:", <<>>)>>
        \o Decl("    double m_%s;")
        \o Decl("    double m_%s_inf, m_tau_%s;")
        \o Decl("    double m_v_%s= 10000.;")
        \o <<Write("h", "    double m_p_open_eq = 0.0, m_p_open = 0.0;", <<>>),
             Write("h", "public:", <<>>),
             Override("    void calcFunStatevar(double v) override;"),
             Override("    double calcPOpen() override;"),
             Override("    void setPOpen() override;"),
             Override("    void setPOpenEQ(double v) override;"),
             Override("    void advance(double dt) override;"),
             Override("    double getCond() override;"),
             Override("    double getCondNewton() override;"),
             Override("    double f(double v) override;"),
             Override("    double DfDv(double v) override;"),
             Override("    void setfNewtonConstant(double* vs, int v_size) override;"),
             Override("    double fNewton(double v) override;"),
             Override("    double DfDvNewton(double v) override;"),
             Write("h", "};", <<>>),
             Write("cc", "void %s::calcFunStatevar(double v){", <<cname>>)>>
        \o ForEach(o.statevars, LAMBDA i, svar :
              <<WriteCode("cc", "    m_%s_inf = %s;", <<ident(svar)>>, <<varinf_(svar)>>)>>
              \o (IF str(svar) = pystr("m")
                  THEN <<Write("cc", "    if(m_instantaneous)", <<>>),
                         WriteCode("cc", "        m_tau_%s = %s;", <<ident(svar)>>,
                                   <<Float(<<1, 100000>>)>>),
                         Write("cc", "    else", <<>>),
                         WriteCode("cc", "        m_tau_%s = %s;", <<ident(svar)>>,
                                   <<tauinf_(svar)>>)>>
                  ELSE <<WriteCode("cc", "    m_tau_%s = %s;", <<ident(svar)>>,
                                   <<tauinf_(svar)>>)>>))
        \o <<Write("cc", "}", <<>>),
             Write("cc", "double %s::calcPOpen(){", <<cname>>),
             WriteCode("cc", "    return %s;", <<>>, <<Renamed(o.p_open, sv, [i \in 1..Len(sv) |-> m_(sv[i])])>>),
             Write("cc", "}", <<>>),
             Write("cc", "void %s::setPOpen(){", <<cname>>),
             Write("cc", "    m_p_open = calcPOpen();", <<>>),
             Write("cc", "}", <<>>),
             Write("cc", "void %s::setPOpenEQ(double v){", <<cname>>),
             Write("cc", "    calcFunStatevar(v);", <<>>)>>
        \o ForEach(sv, LAMBDA i, x : <<Write("cc", "    m_%s = m_%s_inf;", <<x>>)>>)
        \o <<WriteCode("cc", "    m_p_open_eq =%s;", <<>>, <<Renamed(o.p_open, sv,
                                [i \in 1..Len(sv) |-> m_inf(sv[i])])>>),
             Write("cc", "}", <<>>),
             Write("cc", "void %s::advance(double dt){", <<cname>>)>>
        \o ForEach(sv, LAMBDA i, x :
              <<Write("cc", "    double p0_%s = exp(-dt / m_tau_%s);", <<x>>),
                Write("cc", "    m_%s *= p0_%s ;", <<x>>),
                Write("cc", "    m_%s += (1. - p0_%s ) *  m_%s_inf;", <<x>>)>>)
        \o <<Write("cc", "}", <<>>),
             Write("cc", "double %s::getCond(){", <<cname>>),
             Write("cc", "    return m_g_bar * (m_p_open - m_p_open_eq);", <<>>),
             Write("cc", "}", <<>>),
             Write("cc", "double %s::getCondNewton(){", <<cname>>),
             Write("cc", "    return m_g_bar;", <<>>),
             Write("cc", "}", <<>>),
             Write("cc", "double %s::f(double v){", <<cname>>),
             Write("cc", "    return (m_e_rev - v);", <<>>),
             Write("cc", "}", <<>>),
             Write("cc", "double %s::DfDv(double v){", <<cname>>),
             Write("cc", "    return -1.;", <<>>),
             Write("cc", "}", <<>>),
             Write("cc", "void %s::setfNewtonConstant(double* vs, int v_size){", <<cname>>),
             Write("cc", "    if(v_size != %d)", <<Len(o.statevars)>>),
             Write("cc", "        cerr << input arg [vs] has incorrect size << endl;", <<>>)>>
        \o ForEach(sv, LAMBDA ii, x : <<Write("cc", "    m_v_%s = vs[%d];", <<x, ii - 1>>)>>)
        \o <<Write("cc", "}", <<>>),
             Write("cc", "double %s::fNewton(double v){", <<cname>>)>>
        \o ForEach(o.statevars, LAMBDA i, svar :
              NewtonVoltage(ident(svar))
              \o <<WriteCode("cc", "    double %s = %s;", <<ident(svar)>>, <<held(svar)>>)>>)
        \o <<WriteCode("cc", "    return (m_e_rev - v) * (%s - m_p_open_eq);", <<>>,
                       <<o.p_open>>),
             Write("cc", "}", <<>>),
             Write("cc", "double %s::DfDvNewton(double v){", <<cname>>)>>
        \o ForEach(o.statevars, LAMBDA i, svar :
              <<Write("cc", "    double v_%s;", <<ident(svar)>>),
                Write("cc", "    double d%s_dv;", <<ident(svar)>>),
                Write("cc", "    if(m_v_%s > 1000.){", <<ident(svar)>>),
                Write("cc", "        v_%s = v;", <<ident(svar)>>),
                WriteCode("cc", "        d%s_dv = %s;", <<ident(svar)>>,
                          <<diff(held(svar), v_(ident(svar)))>>),
                Write("cc", "    } else{", <<>>),
                Write("cc", "        v_%s = m_v_%s;", <<ident(svar)>>),
                Write("cc", "        d%s_dv = 0;", <<ident(svar)>>),
                Write("cc", "    }", <<>>),
                WriteCode("cc", "    double %s = %s;", <<ident(svar)>>, <<held(svar)>>)>>)
        \o <<WriteCode("cc", "    return -1. * (%s - m_p_open_eq) + (%s) * (m_e_rev - v);",
                       <<sv>>,
                       <<o.p_open>> \o [i \in 1..Len(sv) |-> diff(o.p_open, sv[i])]),
             Write("cc", "}", <<>>),
             Write("h", "", <<>>),
             Write("cc", "", <<>>)>>

\* where the string with format s stands in a text
At(text, s) == {i \in 1..Len(text) : text[i].s = s}

\* the names in the lines of a text that were written with the format s
NamesAt(text, s) ==
    LET w == SelectSeq(text, LAMBDA l : l.s = s)
    IN  [i \in 1..Len(w) |-> w[i].a[1]]

\* how often the string with format s was written to a file
Count(text, s) == Cardinality({i \in 1..Len(text) : text[i].s = s})

\* the files after the steps of a writer that opened the mod file with 'w'
ModWritten(steps, fs, modname) ==
    [files |-> [fs EXCEPT !.mod = Text(steps, "mod")],
     out |-> IF Raised(steps) = "none" THEN Return(modname) ELSE Raise(Raised(steps))]

writeModFile(o, cname, g, e, fs) ==
    ModWritten(writeModFileSteps(o, cname, g, e), fs, <<"I", cname, ".mod">>)

\* the files after the steps of a writer that opened Ionchannels.cc and
\* Ionchannels.h with 'a'
CPPWritten(steps, fs) ==
    [files |-> [fs EXCEPT !.h = @ \o Text(steps, "h"), !.cc = @ \o Text(steps, "cc")],
     out |-> IF Raised(steps) = "none" THEN Return(<<>>) ELSE Raise(Raised(steps))]

writeCPPCode(o, cname, e_rev, fs) == CPPWritten(writeCPPCodeSteps(o, cname), fs)

-----------------------------------------------------------------------------
(* Generating code for one channel. *)

GenChannels == {"NaInf", "KTempInf", "HTemp", "SK", "NaDep", "Rectifier"}

\* how many times writeCPPCode appends to the two files
MaxAppends == 2

\* the class declarations in Ionchannels.h
Classes(h) == {i \in 1..Len(h) : h[i].s = "class %s: public IonChannel{"}

\* chan = channel_class() once more
Reconstruct ==
    /\ status = "ok"
    /\ \E s0 \in {define(defn)} :
       \E svorder \in Orders(free_symbols(sympify(s0.p_open))) :
       \E corder \in Orders(IF hasattr(s0, "conc") THEN s0.conc.elems ELSE {}) :
       \E r \in {__init__(s0, svorder, corder)} :
          /\ status' = IF r.exc = "none" THEN "ok" ELSE r.exc
          /\ self' = r.obj
          /\ ret' = [NoRet EXCEPT !.op = "__init__", !.on = "self",
                                  !.out = [exc |-> r.exc, val |-> r.arg]]
    /\ UNCHANGED <<gen, defn, pickled, loaded, call>>

WriteModFile ==
    /\ status = "ok"
    /\ \E e \in {<<0, 1>>, <<-85, 1>>} :
       \E w \in {writeModFile(self, defn, <<0, 1>>, e, files)} :
          /\ files' = w.files
          /\ ret' = [NoRet EXCEPT !.op = "writeModFile", !.on = "self", !.v = e,
                                  !.out = w.out]
    /\ UNCHANGED <<defn, status, self, pickled, loaded, call, driver, cpp>>

WriteCPPCode ==
    /\ status = "ok"
    /\ cpp.class = ""
    /\ Cardinality(Classes(files.h)) < MaxAppends
    /\ \E w \in {writeCPPCode(self, defn, <<0, 1>>, files)} :
          /\ files' = w.files
          /\ ret' = [NoRet EXCEPT !.op = "writeCPPCode", !.on = "self", !.out = w.out]
    /\ UNCHANGED <<defn, status, self, pickled, loaded, call, driver, cpp>>

InitGen ==
    /\ defn \in GenChannels
    /\ status = "new"
    /\ self = EmptyDict
    /\ pickled = EmptyDict
    /\ loaded = EmptyDict
    /\ ret = NoRet
    /\ call = NoCall
    /\ files = NoFiles
    /\ driver = NoDriver
    /\ cpp = NoInstance

NextGen ==
    \/ Construct
    \/ Reconstruct
    \/ WriteModFile
    \/ WriteCPPCode

SpecGen == InitGen /\ [][NextGen]_vars

-----------------------------------------------------------------------------
(* The batch driver write() of writecppcode.py.  The registry is the       *)
(* __dict__ of the module channelcollection: names bound to channel        *)
(* classes, to other classes and to other objects, in definition order.    *)

PreambleH ==
    <<Line("#include <iostream>", <<>>),
      Line("#include <string>", <<>>),
      Line("#include <vector>", <<>>),
      Line("#include <list>", <<>>),
      Line("#include <map>", <<>>),
      Line("#include <complex>", <<>>),
      Line("#include <string.h>", <<>>),
      Line("#include <stdlib.h>", <<>>),
      Line("#include <algorithm>", <<>>),
      Line("#include <math.h>", <<>>),
      Line("#include <time.h>", <<>>),
      Line("#include <time.h>", <<>>),
      Line("using namespace std;", <<>>),
      Line("class IonChannel{", <<>>),
      Line("protected:", <<>>),
      Line("    double m_g_bar = 0.0, m_e_rev = 50.00000000;", <<>>),
      Line("    bool m_instantaneous = false;", <<>>),
      Line("public:", <<>>),
      Line("    void init(double g_bar, double e_rev){m_g_bar = g_bar; m_e_rev = e_rev;};", <<>>),
      Line("    void setInstantaneous(bool b){m_instantaneous = b;};", <<>>),
      Line("    virtual void calcFunStatevar(double v){};", <<>>),
      Line("    virtual double calcPOpen(){};", <<>>),
      Line("    virtual void setPOpen(){};", <<>>),
      Line("    virtual void setPOpenEQ(double v){};", <<>>),
      Line("    virtual void advance(double dt){};", <<>>),
      Line("    virtual double getCond(){return 0.0;};", <<>>),
      Line("    virtual double getCondNewton(){return 0.0;};", <<>>),
      Line("    virtual double f(double v){return 0.0;};", <<>>),
      Line("    virtual double DfDv(double v){return 0.0;};", <<>>),
      Line("    virtual void setfNewtonConstant(double* vs, int v_size){};", <<>>),
      Line("    virtual double fNewton(double v){return 0.0;};", <<>>),
      Line("    virtual double DfDvNewton(double v){return 0.0;};", <<>>),
      Line("};", <<>>),
      Line("", <<>>)>>

PreambleCC == <<Line("#include Ionchannels.h", <<>>), Line("", <<>>)>>

\* the names a registry binds: channel classes, the base class, the dispatcher
\* class _func and the table E_REV_DICT
RegistryClasses == {"NaInf", "HTemp", "Rectifier", "IonChannelSimplified", "_func"}
RegistryNames == RegistryClasses \cup {"E_REV_DICT"}

\* how many names a registry binds
MaxRegistry == 3

Registries ==
    UNION {{q \in [1..n -> RegistryNames] : \A i, j \in 1..n : q[i] = q[j] => i = j} :
              n \in 1..MaxRegistry}

\* the condition of lines 61-62 and 76-77: a class, not one of the three
\* named ones, without '_func' in its name
IsChannel(name) ==
    /\ name \in RegistryClasses
    /\ name \notin {"IonChannel", "IonChannelSimplified", "SK_simplified"}
    /\ name \notin {"_func"}

\* a bug: the factory table has a branch for every name of the registry
FactoryAll(registry) ==
    <<Line("class ChannelCreator{", <<>>),
      Line("public:", <<>>),
      Line("    IonChannel* createInstance(string channel_name){", <<>>)>>
    \o ForEach(registry, LAMBDA kk, name :
          <<Line(IF kk = 1 THEN "        if(channel_name == %s){"
                 ELSE "        else if(channel_name == %s){", <<name>>),
            Line("            return new %s();", <<name>>),
            Line("        }", <<>>)>>)
    \o <<Line("    };", <<>>), Line("};", <<>>)>>

\* lines 71-86: the factory table
Factory(registry) ==
    <<Line("class ChannelCreator{", <<>>),
      Line("public:", <<>>),
      Line("    IonChannel* createInstance(string channel_name){", <<>>)>>
    \o ForEach(SelectSeq(registry, IsChannel), LAMBDA kk, name :
          <<Line(IF kk = 1 THEN "        if(channel_name == %s){"
                 ELSE "        else if(channel_name == %s){", <<name>>),
            Line("            return new %s();", <<name>>),
            Line("        }", <<>>)>>)
    \o <<Line("    };", <<>>), Line("};", <<>>)>>

\* lines 16-58: both files are opened with 'w' and get the preamble
WriteOpen ==
    /\ driver.state \in {"idle", "done", "raised"}
    /\ driver' = [driver EXCEPT !.state = "loop", !.pos = 1]
    /\ files' = [files EXCEPT !.h = PreambleH, !.cc = PreambleCC]
    /\ ret' = [NoRet EXCEPT !.op = "write"]
    /\ UNCHANGED <<defn, status, self, pickled, loaded, call, cpp>>

\* lines 60-62: a registry entry that is not a channel class is passed over
WriteSkip ==
    /\ driver.state = "loop"
    /\ driver.pos <= Len(driver.registry)
    /\ ~IsChannel(driver.registry[driver.pos])
    /\ driver' = [driver EXCEPT !.pos = @ + 1]
    /\ UNCHANGED <<defn, status, self, pickled, loaded, ret, call, files, cpp>>

\* lines 63-66: chan = channel_class(); chan.writeCPPCode(path, E_REV_DICT[name]).
\* An exception of either ends write().
WriteChannel ==
    /\ driver.state = "loop"
    /\ driver.pos <= Len(driver.registry)
    /\ IsChannel(driver.registry[driver.pos])
    /\ \E name \in {driver.registry[driver.pos]} :
       \E s0 \in {define(name)} :
       \E svorder \in Orders(free_symbols(sympify(s0.p_open))) :
       \E corder \in Orders(IF hasattr(s0, "conc") THEN s0.conc.elems ELSE {}) :
       \E r \in {__init__(s0, svorder, corder)} :
          /\ defn' = name
          /\ status' = IF r.exc = "none" THEN "ok" ELSE r.exc
          /\ self' = r.obj
          /\ IF r.exc # "none"
             THEN /\ files' = files
                  /\ driver' = [driver EXCEPT !.state = "raised"]
                  /\ ret' = [NoRet EXCEPT !.op = "write", !.out = Raise(r.exc)]
             ELSE \E w \in {writeCPPCode(r.obj, name, <<0, 1>>, files)} :
                  /\ files' = w.files
                  /\ driver' = IF w.out.exc = "none"
                               THEN [driver EXCEPT !.pos = @ + 1]
                               ELSE [driver EXCEPT !.state = "raised"]
                  /\ ret' = [NoRet EXCEPT !.op = "write", !.out = w.out]
    /\ UNCHANGED <<pickled, loaded, call, cpp>>

\* lines 69-89: the factory table is appended to Ionchannels.h
WriteFactory ==
    /\ driver.state = "loop"
    /\ driver.pos > Len(driver.registry)
    /\ driver' = [driver EXCEPT !.state = "done"]
    /\ files' = [files EXCEPT !.h = @ \o Factory(driver.registry)]
    /\ ret' = [NoRet EXCEPT !.op = "write", !.out = Return(<<>>)]
    /\ UNCHANGED <<defn, status, self, pickled, loaded, call, cpp>>

InitWrite ==
    /\ defn = ""
    /\ status = "new"
    /\ self = EmptyDict
    /\ pickled = EmptyDict
    /\ loaded = EmptyDict
    /\ ret = NoRet
    /\ call = NoCall
    /\ files = NoFiles
    /\ driver \in {[NoDriver EXCEPT !.registry = q] : q \in Registries}
    /\ cpp = NoInstance

NextWrite ==
    \/ WriteOpen
    \/ WriteSkip
    \/ WriteChannel
    \/ WriteFactory

SpecWrite == InitWrite /\ [][NextWrite]_vars

-----------------------------------------------------------------------------
(* The generated C++ class: an instance holds the fields the declaration   *)
(* in Ionchannels.h gives it, its methods run the statements that          *)
(* writeCPPCode wrote to Ionchannels.cc.                                   *)

RGreater(p, q) == p[1] * q[2] > q[1] * p[2]

\* new <class>(): the fields with their initialisers ('double m_v_x= 10000.',
\* 'm_p_open_eq = 0.0' and, in the base class, 'm_e_rev = 50.00000000')
Instance(cname, h, cc) ==
    [class |-> cname,
     code |-> cc,
     order |-> NamesAt(h, "    double m_v_%s= 10000.;"),
     m_v |-> [x \in {l.a[1] : l \in {h[i] : i \in At(h, "    double m_v_%s= 10000.;")}}
                 |-> <<10000, 1>>],
     m_p_open_eq |-> <<0, 1>>,
     m_e_rev |-> <<50, 1>>,
     cerr |-> 0,
     calls |-> 0]

\* the statements of a method: the lines after its head up to its closing brace
Body(code, head) ==
    LET b == CHOOSE i \in At(code, head) : TRUE
        e == CHOOSE j \in (b + 1)..Len(code) :
                 code[j].s = "}" /\ \A k \in (b + 1)..(j - 1) : code[k].s # "}"
    IN  SubSeq(code, b + 1, e - 1)

\* The start of a call: the fields, the arguments (v; vs as the memory at
\* that address; v_size), no locals.  run: the next statement is executed;
\* once: the condition of an if without braces covers one statement.
Frame(o, v, vs, v_size) ==
    [m_v |-> o.m_v, cerr |-> o.cerr, m_e_rev |-> o.m_e_rev,
     m_p_open_eq |-> o.m_p_open_eq,
     env |-> ("v" :> v), d |-> EmptyDict, vs |-> vs, v_size |-> v_size,
     run |-> TRUE, once |-> FALSE, cond |-> TRUE, out |-> <<0, 1>>]

\* after a statement the condition of an if without braces no longer applies
Next1(st) == [st EXCEPT !.run = TRUE, !.once = FALSE]
Stmt(st, new) == IF st.once THEN Next1(IF st.run THEN new ELSE st)
                 ELSE IF st.run THEN new ELSE st

\* sum of dp_o[i] * d<x[i]>_dv over the state variables
RECURSIVE Summed(_, _, _, _)
Summed(sv, codes, i, st) ==
    IF i > Len(sv) THEN <<0, 1>>
    ELSE RAdd(RMul(evalf(codes[i][2], st.env).val, st.d[sv[i]]),
              Summed(sv, codes, i + 1, st))

\* one line of a method body
Step(st, l) ==
    CASE l.s = "    if(v_size != %d)" ->
            [st EXCEPT !.run = (st.v_size # l.a[1]), !.once = TRUE]
      [] l.s = "        cerr << input arg [vs] has incorrect size << endl;" ->
            Stmt(st, [st EXCEPT !.cerr = @ + 1])
      [] l.s = "    m_v_%s = vs[%d];" ->
            Stmt(st, [st EXCEPT !.m_v[l.a[1]] = st.vs[l.a[2] + 1]])
      [] l.s = "    if(m_v_%s > 1000.){" ->
            [st EXCEPT !.cond = RGreater(st.m_v[l.a[1]], <<1000, 1>>),
                       !.run = RGreater(st.m_v[l.a[1]], <<1000, 1>>)]
      [] l.s = "    } else{" -> [st EXCEPT !.run = ~st.cond]
      [] l.s = "    }" -> [st EXCEPT !.run = TRUE]
      [] l.s = "        v_%s = v;" ->
            Stmt(st, [st EXCEPT !.env = (v_(l.a[1]) :> st.env["v"]) @@ @])
      [] l.s = "        v_%s = m_v_%s;" ->
            Stmt(st, [st EXCEPT !.env = (v_(l.a[1]) :> st.m_v[l.a[1]]) @@ @])
      [] l.s = "    double %s = %s;" ->
            Stmt(st, [st EXCEPT !.env = (l.a[1] :> evalf(l.a[2][2], st.env).val) @@ @])
      [] l.s = "        d%s_dv = %s;" ->
            Stmt(st, [st EXCEPT !.d = (l.a[1] :> evalf(l.a[2][2], st.env).val) @@ @])
      [] l.s = "        d%s_dv = 0;" ->
            Stmt(st, [st EXCEPT !.d = (l.a[1] :> <<0, 1>>) @@ @])
      [] l.s = "    return (m_e_rev - v) * (%s - m_p_open_eq);" ->
            Stmt(st, [st EXCEPT !.out =
                RMul(RSub(st.m_e_rev, st.env["v"]),
                     RSub(evalf(l.a[1][2], st.env).val, st.m_p_open_eq))])
      [] l.s = "    return -1. * (%s - m_p_open_eq) + (%s) * (m_e_rev - v);" ->
            Stmt(st, [st EXCEPT !.out =
                RAdd(RNeg(RSub(evalf(l.a[2][2], st.env).val, st.m_p_open_eq)),
                     RMul(Summed(l.a[1], Tail(Tail(l.a)), 1, st),
                          RSub(st.m_e_rev, st.env["v"])))])
      \* declarations without initialiser
      [] OTHER -> st

RECURSIVE Exec(_, _)
Exec(st, body) == IF body = <<>> THEN st ELSE Exec(Step(st, Head(body)), Tail(body))

\* o.<method>(...): the frame after the last statement
Run(o, head, v, vs, v_size) == Exec(Frame(o, v, vs, v_size), Body(o.code, head))

-----------------------------------------------------------------------------
(* A program that uses the generated class of one channel. *)

CppChannels == {"NaInf", "KTempInf", "HTemp"}

\* how many calls of setfNewtonConstant an instance gets
MaxCalls == 2
\* how far the array passed to setfNewtonConstant may be longer than the
\* number of state variables
MaxExtra == 1

\* voltages to hold a state variable at (at most 1000) and to release it
HoldValues == {<<2, 1>>, <<5000, 1>>}
\* what a read past the end of the array vs can yield
Garbage == {<<7, 1>>, <<9999, 1>>}

\* the arrays of length n
ArraysOf(S, n) == [1..n -> S]

\* IonChannel* chan = new <class>(), the class compiled from the two files
New ==
    /\ cpp.class = ""
    /\ Cardinality(Classes(files.h)) = 1
    /\ Count(files.h, "") = 1
    /\ Count(files.cc, "") = 1
    /\ cpp' = Instance(defn, files.h, files.cc)
    /\ ret' = [NoRet EXCEPT !.op = "new"]
    /\ UNCHANGED <<defn, status, self, pickled, loaded, call, files, driver>>

\* chan->setfNewtonConstant(vs, v_size) with an array vs of v_size doubles; a
\* read past its end yields whatever the memory there holds
SetfNewtonConstant ==
    /\ cpp.class # ""
    /\ cpp.calls < MaxCalls
    /\ \E n \in 0..(Len(cpp.order) + MaxExtra) :
       \E vs \in ArraysOf(HoldValues, n) :
       \E beyond \in ArraysOf(Garbage, IF n < Len(cpp.order) THEN Len(cpp.order) - n ELSE 0) :
       \E st \in {Run(cpp, "void %s::setfNewtonConstant(double* vs, int v_size){",
                      <<0, 1>>, vs \o beyond, n)} :
          /\ cpp' = [cpp EXCEPT !.m_v = st.m_v, !.cerr = st.cerr, !.calls = @ + 1]
          /\ ret' = [op |-> "setfNewtonConstant", on |-> "cpp", v |-> <<0, 1>>,
                     vs |-> vs, v_size |-> n, kwargs |-> EmptyDict,
                     out |-> Return(<<>>)]
    /\ UNCHANGED <<defn, status, self, pickled, loaded, call, files, driver>>

\* chan->fNewton(v)
FNewton ==
    /\ cpp.class # ""
    /\ \E v \in Volts :
       \E st \in {Run(cpp, "double %s::fNewton(double v){", v, <<>>, 0)} :
          ret' = [NoRet EXCEPT !.op = "fNewton", !.on = "cpp", !.v = v,
                               !.out = Return(st.out)]
    /\ UNCHANGED <<defn, status, self, pickled, loaded, call, files, driver, cpp>>

\* chan->DfDvNewton(v)
DfDvNewton ==
    /\ cpp.class # ""
    /\ \E v \in Volts :
       \E st \in {Run(cpp, "double %s::DfDvNewton(double v){", v, <<>>, 0)} :
          ret' = [NoRet EXCEPT !.op = "DfDvNewton", !.on = "cpp", !.v = v,
                               !.out = Return(st.out)]
    /\ UNCHANGED <<defn, status, self, pickled, loaded, call, files, driver, cpp>>

InitCpp ==
    /\ defn \in CppChannels
    /\ status = "new"
    /\ self = EmptyDict
    /\ pickled = EmptyDict
    /\ loaded = EmptyDict
    /\ ret = NoRet
    /\ call = NoCall
    /\ files = NoFiles
    /\ driver = NoDriver
    /\ cpp = NoInstance

NextCpp ==
    \/ Construct
    \/ WriteCPPCode
    \/ New
    \/ SetfNewtonConstant
    \/ FNewton
    \/ DfDvNewton

SpecCpp == InitCpp /\ [][NextCpp]_vars

-----------------------------------------------------------------------------
(* Properties. *)

\* two outcomes agree: the same exception, or the same value
SameOutcome(a, b) == a.exc = b.exc /\ (a.exc = "none" => a.val = b.val)

EvalOps == {"computePOpen", "computeDerivatives", "computeDerivativesConc",
            "computeVarinf", "computeTauinf"}

\* the evaluation op of object o
Evaluate(o, op, v, kwargs) ==
    CASE op = "computePOpen" -> computePOpen(o, v, kwargs)
      [] op = "computeDerivatives" -> computeDerivatives(o, v, kwargs)
      [] op = "computeDerivativesConc" -> computeDerivativesConc(o, v, kwargs)
      [] op = "computeVarinf" -> computeVarinf(o, v)
      [] op = "computeTauinf" -> computeTauinf(o, v)

\* C1: after setDefaultParams, every evaluation uses closures built from the
\* current default_params: the outcome of the last evaluation of the channel
\* is the outcome the same call has once the closures are rebuilt from the
\* current default_params.
C1_EvaluationsUseCurrentDefaults ==
    (ret.op \in EvalOps /\ ret.on = "self") =>
        SameOutcome(ret.out, Evaluate(_lambdifyChannel(self), ret.op, ret.v, ret.kwargs))

\* the definition gives no reversal e and its ion has no default reversal
NoReversal(s0) ==
    /\ ~hasattr(s0, "e")
    /\ pystr(IF hasattr(s0, "ion") THEN s0.ion ELSE "") \notin DOMAIN E_ION_DICT

\* C2: a definition without a reversal e and without an ion that has a
\* default reversal still constructs: __init__ raises nothing and the
\* evaluation operations that need no reversal work.
C2_ConstructibleWithoutReversal ==
    /\ (ret.op = "__init__" /\ NoReversal(define(defn))) => ret.out.exc = "none"
    /\ (ret.op \in EvalOps /\ NoReversal(define(defn))) => ret.out.exc = "none"

\* the pair of dictionaries a, b of the definition s0 has a key for sv
HasPair(s0, sv, a, b) ==
    /\ hasattr(s0, a) /\ hasattr(s0, b)
    /\ pystr(sv) \in DOMAIN s0[a] /\ pystr(sv) \in DOMAIN s0[b]

\* the state variables of p_open with neither a complete (alpha, beta) pair
\* nor a complete (varinf, tauinf) pair
Unspecified(s0) ==
    {sv \in free_symbols(sympify(s0.p_open)) :
        /\ ~HasPair(s0, sv, "alpha", "beta")
        /\ ~HasPair(s0, sv, "varinf", "tauinf")}

\* the state variables whose key is missing from the pair __init__ reads
LackingInPairRead(s0) ==
    {sv \in free_symbols(sympify(s0.p_open)) :
        IF hasattr(s0, "alpha") /\ hasattr(s0, "beta")
        THEN ~HasPair(s0, sv, "alpha", "beta")
        ELSE ~HasPair(s0, sv, "varinf", "tauinf")}

\* C3 (as amended): when some state variable of p_open has no complete pair,
\* construction fails and leaves no model.  If both dictionaries of the pair
\* __init__ reads are present (alpha and beta, else varinf and tauinf) the
\* error is a KeyError naming one state variable whose key is missing from
\* that pair; otherwise it is the generic AttributeError, which names no
\* state variable.
C3_IncompleteDefinitionFails ==
    (ret.op = "__init__" /\ Unspecified(define(defn)) # {}) =>
        /\ self = EmptyDict
        /\ IF \/ hasattr(define(defn), "alpha") /\ hasattr(define(defn), "beta")
              \/ hasattr(define(defn), "varinf") /\ hasattr(define(defn), "tauinf")
           THEN /\ status = "KeyError"
                /\ ret.out.val \in LackingInPairRead(define(defn))
           ELSE /\ status = "AttributeError"
                /\ ret.out.val \notin free_symbols(sympify(define(defn).p_open))

C3_Witness ==
    /\ ret.op = "__init__" /\ defn = "BothLack"
    /\ status = "KeyError" /\ ret.out.val \in {"m", "h"}

\* C3 (as claimed): when some state variable of p_open has no complete pair,
\* construction fails, leaves no model, and the error names a missing state
\* variable.
C3_ErrorNamesMissingVariable ==
    (ret.op = "__init__" /\ Unspecified(define(defn)) # {}) =>
        /\ status # "ok"
        /\ self = EmptyDict
        /\ ret.out.val \in Unspecified(define(defn))

\* C4: the formula _func.__call__ selects for element i of an array is the
\* formula it selects for that element passed alone as a float.
C4_ArrayMatchesScalar ==
    \A i \in 1..Len(call.vv) :
        call.float[i] # "none" => call.float[i] = call.array[i]

\* the value computePOpen is to return: p_open with every state variable at
\* its override or at its asymptotic value at v, every concentration at its
\* override or at its stored default
ExpectedPOpen(o, v, kwargs) ==
    LET cval(c) == IF str(c) \in DOMAIN kwargs THEN kwargs[str(c)]
                   ELSE OGet(o.conc.items, c)
        cenv == [n \in {ident(c) : c \in SeqRange(o.sp_c)} |->
                    cval(CHOOSE c \in SeqRange(o.sp_c) : ident(c) = n)]
        venv == (ident(o.sp_v) :> v) @@ cenv
        xval(sv) == IF str(sv) \in DOMAIN kwargs THEN kwargs[str(sv)]
                    ELSE evalf(o.f_varinf[sv].expr, venv).val
        xenv == [n \in {ident(sv) : sv \in SeqRange(o.statevars)} |-> xval(symbols(n))]
    IN  evalf(o.p_open, xenv @@ venv)

\* C5: computePOpen succeeds for every constructed model and every subset of
\* overrides, and returns p_open with the overridden arguments at their
\* overrides, the other state variables at their asymptotic values at v and
\* the other concentrations at their stored defaults.
C5_POpenDefaultsEveryArgument ==
    ret.op = "computePOpen" =>
        SameOutcome(ret.out, ExpectedPOpen(Obj(ret.on), ret.v, ret.kwargs))

\* C6: the dict __getstate__ returns holds none of the closures, and the
\* object __setstate__ builds holds all of them, each the closure
\* _lambdifyChannel builds from the object's expressions and default_params.
C6_ClosuresNotPersistedAndRebuilt ==
    /\ DOMAIN pickled \cap ClosureAttrs = {}
    /\ DOMAIN loaded # {} =>
          /\ ClosureAttrs \subseteq DOMAIN loaded
          /\ \A rebuilt \in {_lambdifyChannel(__getstate__(loaded))} :
                \A a \in ClosureAttrs : loaded[a] = rebuilt[a]
          /\ \A sv \in SeqRange(loaded.statevars) :
                loaded.f_tauinf[sv].expr = _substituteDefaults(loaded, loaded.tauinf[sv])

C6_Witness ==
    /\ DOMAIN pickled # {}
    /\ DOMAIN loaded # {}
    /\ defn = "KTemp"
    /\ loaded.default_params["temp"] = <<26, 1>>

\* C7: a channel rebuilt by __setstate__ from the persisted state of the
\* original returns from computePOpen what the original returns, for every
\* voltage and every set of overrides.
C7_RoundTripSamePOpen ==
    (/\ ret.op = "computePOpen" /\ ret.on = "loaded"
     /\ __getstate__(self) = __getstate__(loaded)) =>
        SameOutcome(ret.out, computePOpen(self, ret.v, ret.kwargs))

\* the symbolic part of a channel
Symbolic(o) == <<o.p_open, o.statevars, o.varinf, o.tauinf, o.fstatevar, o.conc>>

\* C8: setDefaultParams and every compute* call leave p_open, the state
\* variables, varinf, tauinf, fstatevar and the concentration defaults
\* unchanged.
C8_SymbolicModelUnchanged ==
    [][(status = "ok" /\ ret'.op \in EvalOps \cup {"setDefaultParams"})
          => Symbolic(self)' = Symbolic(self)]_vars

C8_Witness ==
    /\ ret.op = "setDefaultParams"
    /\ defn = "KTemp"
    /\ self.default_params["temp"] = <<26, 1>>

\* sampled temperatures [degC]
SampleTemps == {<<26, 1>>, <<36, 1>>}

\* sampled points: voltage v, temperature t, every state variable at the
\* override value, every concentration at its stored default
Env(o, v, t) ==
    (ident(o.sp_v) :> v) @@ (ident(o.sp_t) :> t)
    @@ [n \in {ident(sv) : sv \in SeqRange(o.statevars)} |-> <<1, 3>>]
    @@ [n \in {ident(c) : c \in SeqRange(o.sp_c)} |->
            OGet(o.conc.items, CHOOSE c \in SeqRange(o.sp_c) : ident(c) = n)]

Envs(o) == {Env(o, v, t) : v \in Volts, t \in SampleTemps}

\* definitions of the same kinetics in the other form
Twin == [NaAB |-> "NaInf", NaInf |-> "NaAB", KTemp |-> "KTempInf", KTempInf |-> "KTemp"]

\* the channel a definition without concentrations constructs
Constructed(c) ==
    __init__(define(c),
             CHOOSE q \in Orders(free_symbols(sympify(define(c).p_open))) : TRUE,
             <<>>).obj

\* C9: a constructed channel holds varinf, tauinf and fstatevar for every
\* state variable, fstatevar is (varinf - variable)/tauinf of the stored
\* expressions at every sampled point, and the two forms of the same kinetics
\* give the same fstatevar.
C9_RateOfChangeFromStoredPair ==
    status = "ok" =>
        /\ \A sv \in SeqRange(self.statevars) :
              /\ sv \in DOMAIN self.varinf
              /\ sv \in DOMAIN self.tauinf
              /\ sv \in DOMAIN self.fstatevar
              /\ \A env \in Envs(self) :
                    /\ evalf(self.fstatevar[sv], env).exc = "none"
                    /\ RMul(evalf(self.fstatevar[sv], env).val,
                            evalf(self.tauinf[sv], env).val)
                       = RSub(evalf(self.varinf[sv], env).val, env[ident(sv)])
        /\ defn \in DOMAIN Twin =>
              \A twin \in {Constructed(Twin[defn])} :
                 /\ SeqRange(twin.statevars) = SeqRange(self.statevars)
                 /\ \A sv \in SeqRange(self.statevars) : \A env \in Envs(self) :
                       evalf(self.fstatevar[sv], env) = evalf(twin.fstatevar[sv], env)

C9_Witness ==
    /\ status = "ok"
    /\ defn = "KTempInf"
    /\ ret.op = "__init__"

\* C10: in the rate constant form varinf is alpha/(alpha + beta) and tauinf is
\* (1/q10)/(alpha + beta); in the asymptotic form tauinf is the supplied time
\* constant divided by q10; at every sampled point, so that the division by
\* q10 is applied once.
C10_TemperatureFactorOnce ==
    status = "ok" =>
        \A s0 \in {define(defn)} :
        \A sv \in SeqRange(self.statevars) : \A env \in Envs(self) :
        \A q \in {evalf(self.q10, env).val} :
            IF hasattr(s0, "alpha") /\ hasattr(s0, "beta")
            THEN \A a \in {evalf(sympify(s0.alpha[str(sv)]), env).val} :
                 \A b \in {evalf(sympify(s0.beta[str(sv)]), env).val} :
                    /\ evalf(self.varinf[sv], env) = Return(RDiv(a, RAdd(a, b)))
                    /\ evalf(self.tauinf[sv], env)
                       = Return(RDiv(RDiv(<<1, 1>>, q), RAdd(a, b)))
            ELSE /\ evalf(self.varinf[sv], env)
                    = evalf(sympify(s0.varinf[str(sv)]), env)
                 /\ evalf(self.tauinf[sv], env)
                    = Return(RDiv(evalf(sympify(s0.tauinf[str(sv)]), env).val, q))

C10_Witness ==
    /\ status = "ok"
    /\ defn = "HTemp"
    /\ ret.op = "computeTauinf"

\* the concentrations __init__ is to infer: the free symbols of the
\* fstatevar expressions that are no state variable, voltage or temperature
InferredConc(o) ==
    (UNION {free_symbols(o.fstatevar[sv]) : sv \in SeqRange(o.statevars)})
        \ ({ident(sv) : sv \in SeqRange(o.statevars)} \cup {ident(o.sp_v), ident(o.sp_t)})

\* C11: a definition that declares no concentrations constructs, and its
\* concentration mapping holds exactly the inferred concentrations, each at
\* its CONC_DICT default (none for kinetics that depend on voltage only).
C11_ConcentrationsInferred ==
    (ret.op = "__init__" /\ ~hasattr(define(defn), "conc")) =>
        /\ status = "ok"
        /\ {ident(self.conc.items[i][1]) : i \in 1..Len(self.conc.items)}
           = InferredConc(self)
        /\ \A i \in 1..Len(self.conc.items) :
              self.conc.items[i][2] = CONC_DICT[str(self.conc.items[i][1])]

LinearOps == {"computeLinear", "computeLinearConc"}

\* the linearised contribution at one frequency and one voltage
LinearAt(o, op, u, f, ion, kwargs) ==
    IF op = "computeLinear" THEN computeLinear(o, Scalar(u), Scalar(f), kwargs)
    ELSE computeLinearConc(o, Scalar(u), Scalar(f), ion, kwargs)

\* C12: for arrays freqs and v whose every single frequency and voltage can
\* be evaluated, computeLinear and computeLinearConc return an array of shape
\* (shape of freqs) + (shape of v) whose entry (i, j) is the contribution at
\* freqs[i] and v[j].
C12_LinearOuterProduct ==
    (/\ ret.op \in LinearOps
     /\ ret.v.shape # <<>>
     /\ ret.freqs.shape # <<>>
     /\ \A i \in 1..Size(ret.freqs) : \A j \in 1..Size(ret.v) :
           LinearAt(self, ret.op, ret.v.x[j], ret.freqs.x[i], ret.ion, ret.kwargs).exc
             = "none") =>
        /\ ret.out.exc = "none"
        /\ ret.out.val.shape = ret.freqs.shape \o ret.v.shape
        /\ \A i \in 1..Size(ret.freqs) : \A j \in 1..Size(ret.v) :
              ret.out.val.x[(i - 1) * Size(ret.v) + j]
              = LinearAt(self, ret.op, ret.v.x[j], ret.freqs.x[i], ret.ion,
                         ret.kwargs).val.x[1]

ReversalOps == {"computeLinSum", "computeLinConc"}

\* the linearised current for the reversal e
CurrentFor(o, op, e, v, freqs, ion, kwargs) ==
    IF op = "computeLinSum"
    THEN LinSumFrom(e, v, computeLinear(o, v, freqs, kwargs),
                    POpenFrom(o, v, kwargs,
                              [j \in 1..Size(v) |-> computePOpen(o, v.x[j], kwargs)]))
    ELSE LinConcFrom(e, v, computeLinearConc(o, v, freqs, ion, kwargs))

\* the call op of object o with the reversal argument e
CurrentOf(o, op, e, v, freqs, ion, kwargs) ==
    IF op = "computeLinSum" THEN computeLinSum(o, v, freqs, e, kwargs)
    ELSE computeLinConc(o, v, freqs, ion, e, kwargs)

\* the object without a stored default reversal
WithoutReversal(o) ==
    [o EXCEPT !.default_params = [k \in DOMAIN o.default_params \ {"e"} |->
                                     o.default_params[k]]]

\* C13: computeLinSum and computeLinConc return the current for the e passed,
\* or, e omitted, for the current default_params['e']; on an object that
\* stores no default the call with e omitted raises the KeyError of
\* _getReversal and returns no value, and the call with e passed is not
\* affected.
C13_ReversalResolved ==
    ret.op \in ReversalOps =>
        /\ SameOutcome(ret.out,
              CurrentFor(self, ret.op,
                         Return(IF ret.e # <<>> THEN ret.e[1]
                                ELSE self.default_params["e"]),
                         ret.v, ret.freqs, ret.ion, ret.kwargs))
        /\ \A r \in {CurrentOf(WithoutReversal(self), ret.op, ret.e, ret.v, ret.freqs,
                               ret.ion, ret.kwargs)} :
              IF ret.e = <<>> THEN r = Raise("KeyError") ELSE SameOutcome(r, ret.out)

C13_Witness ==
    /\ ret.op = "computeLinSum"
    /\ ret.e = <<>>
    /\ ret.out.exc = "none"
    /\ defn = "HTemp"
    /\ self.default_params["e"] = <<-85, 1>>

\* C19: after _lambdifyChannel (construction, reload) f_statevar, f_varinf,
\* f_tauinf, dp_dx, df_dv, df_dx and df_dc are mappings keyed by exactly the
\* state variables, df_dc[x] keyed by every concentration.
C19_ClosurePerStateVariable ==
    \A on \in Live :
        /\ Obj(on).f_statevar.type = "CallDict"
        /\ \A a \in {"f_varinf", "f_tauinf", "dp_dx", "df_dv", "df_dx", "df_dc"} :
              DOMAIN Obj(on)[a] = SeqRange(Obj(on).statevars)
        /\ \A sv \in SeqRange(Obj(on).statevars) :
              DOMAIN Obj(on).df_dc[sv] = SeqRange(Obj(on).sp_c)

\* C14: two constructions of the same channel definition enumerate the state
\* variables in the same order, so that the index assignment vs[i] of the
\* generated setfNewtonConstant and the generated text are the same.
C14_SameOrderEveryConstruction ==
    [][(status = "ok" /\ status' = "ok")
       => /\ self'.statevars = self.statevars
          /\ Text(writeCPPCodeSteps(self', defn), "cc")
                = Text(writeCPPCodeSteps(self, defn), "cc")]_vars

\* the mod file holds all of a channel's text: it ends with the closing
\* brace of PROCEDURE rates, written after both rates of every state variable
CompleteMod(text, o) ==
    /\ Count(text, "PROCEDURE rates(v%s) {") = 1
    /\ text[Len(text)].s = "}"
    /\ Count(text, "    %s_inf = %s") = Len(o.statevars)
    /\ Count(text, "    tau_%s = %s") = Len(o.statevars)

\* C15: when an expression cannot be printed no partial text of the channel is
\* left: in Ionchannels.h and Ionchannels.cc every class that was begun is
\* ended (the closing empty line) and is in both files, and the mod file
\* holds nothing or the complete text.
C15_CompleteTextOrNone ==
    /\ Count(files.h, "class %s: public IonChannel{") = Count(files.h, "")
    /\ Count(files.cc, "void %s::calcFunStatevar(double v){") = Count(files.cc, "")
    /\ Count(files.h, "") = Count(files.cc, "")
    /\ files.mod # <<>> => CompleteMod(files.mod, self)

\* the section headers of a mod file
Sections == <<"NEURON {", "PARAMETER {", "UNITS {", "ASSIGNED {", "STATE {",
              "BREAKPOINT {", "INITIAL {", "DERIVATIVE states {",
              "PROCEDURE rates(v%s) {">>

\* the lines of the block that the header s opens, up to its closing brace
Block(text, s) ==
    {i \in 1..Len(text) :
        \E b \in At(text, s) : b < i /\ \A j \in b..i : text[j].s # "}"}

\* the lines of the block of s written with format f for the variable x
LinesFor(text, s, f, x) == {i \in Block(text, s) : text[i].s = f /\ text[i].a[1] = x}

\* C18: the text written by a writeModFile call has each section once, in
\* order; the STATE block names each state variable once and nothing else;
\* INITIAL sets x = x_inf, DERIVATIVE has x' = (x_inf - x) / tau_x and
\* PROCEDURE rates assigns x_inf and tau_x, once for each state variable x.
C18_ModFileSections ==
    (ret.op = "writeModFile" /\ ret.out.exc = "none") =>
        /\ \A k \in 1..Len(Sections) : Cardinality(At(files.mod, Sections[k])) = 1
        /\ \A k \in 1..(Len(Sections) - 1) :
              \A i \in At(files.mod, Sections[k]) :
              \A j \in At(files.mod, Sections[k + 1]) : i < j
        /\ Cardinality(Block(files.mod, "STATE {")) = Len(self.statevars)
        /\ \A k \in 1..Len(self.statevars) :
              \A x \in {ident(self.statevars[k])} :
                 /\ Cardinality(LinesFor(files.mod, "STATE {", "    %s", x)) = 1
                 /\ Cardinality(LinesFor(files.mod, "INITIAL {",
                                         "    %s = %s_inf", x)) = 1
                 /\ Cardinality(LinesFor(files.mod, "DERIVATIVE states {",
                                         "    %s' = (%s_inf - %s) /  tau_%s", x)) = 1
                 /\ Cardinality(LinesFor(files.mod, "PROCEDURE rates(v%s) {",
                                         "    %s_inf = %s", x)) = 1
                 /\ Cardinality(LinesFor(files.mod, "PROCEDURE rates(v%s) {",
                                         "    tau_%s = %s", x)) = 1

C18_Witness ==
    /\ ret.op = "writeModFile"
    /\ ret.out.exc = "none"
    /\ Len(self.statevars) = 2
    /\ Len(self.sp_c) > 0 \/ defn = "NaInf"
    /\ files.mod[Len(files.mod)].s = "}"

\* the formats of the lines of Ionchannels.cc that open a method of a class
MethodHeads ==
    {"void %s::calcFunStatevar(double v){", "double %s::calcPOpen(){",
     "void %s::setPOpen(){", "void %s::setPOpenEQ(double v){",
     "void %s::advance(double dt){", "double %s::getCond(){",
     "double %s::getCondNewton(){", "double %s::f(double v){",
     "double %s::DfDv(double v){",
     "void %s::setfNewtonConstant(double* vs, int v_size){",
     "double %s::fNewton(double v){", "double %s::DfDvNewton(double v){"}

\* the class each method of Ionchannels.cc belongs to, in file order
Owners(cc) ==
    LET w == SelectSeq(cc, LAMBDA l : l.s \in MethodHeads)
    IN  [i \in 1..Len(w) |-> w[i].a[1]]

IsPrefix(p, q) == Len(p) <= Len(q) /\ \A i \in 1..Len(p) : p[i] = q[i]

\* C17: a run of write() is one serialized pass.  Both files begin with the
\* preamble; the class texts follow it in registry order, each channel at most
\* once and its methods in one block; the factory table is written once,
\* after every class text, when the pass is complete, and has one branch for
\* each channel whose class text was written, which are then all channels of
\* the registry.
C17_SinglePass ==
    driver.state # "idle" =>
        /\ SubSeq(files.h, 1, Len(PreambleH)) = PreambleH
        /\ SubSeq(files.cc, 1, Len(PreambleCC)) = PreambleCC
        /\ \A i \in At(files.h, "class %s: public IonChannel{") : i > Len(PreambleH)
        /\ IsPrefix(NamesAt(files.h, "class %s: public IonChannel{"),
                    SelectSeq(driver.registry, IsChannel))
        /\ NamesAt(files.cc, "void %s::calcFunStatevar(double v){")
              = NamesAt(files.h, "class %s: public IonChannel{")
        /\ \A own \in {Owners(files.cc)} :
              \A i, j, k \in 1..Len(own) :
                 (i < j /\ j < k /\ own[i] = own[k]) => own[j] = own[i]
        /\ Cardinality(At(files.h, "class ChannelCreator{")) <= 1
        /\ At(files.h, "class ChannelCreator{") # {} <=> driver.state = "done"
        /\ driver.state = "done" =>
              /\ NamesAt(files.h, "class %s: public IonChannel{")
                    = SelectSeq(driver.registry, IsChannel)
              /\ NamesAt(files.h, "            return new %s();")
                    = NamesAt(files.h, "class %s: public IonChannel{")
              /\ \A f \in At(files.h, "class ChannelCreator{") :
                 \A i \in At(files.h, "class %s: public IonChannel{")
                          \cup At(files.h, "") : i < f

C17_Witness ==
    /\ driver.state = "done"
    /\ Len(driver.registry) = 3
    /\ NamesAt(files.h, "            return new %s();") = <<"HTemp", "NaInf">>
    /\ Cardinality(At(files.cc, "double %s::fNewton(double v){")) = 2

\* C16: a setfNewtonConstant call whose v_size differs from the number of
\* state variables reports the error and leaves the held-voltage fields as
\* they were (nothing is read from the wrongly sized array).
C16_MismatchRejected ==
    [][(ret'.op = "setfNewtonConstant" /\ cpp'.calls # cpp.calls
        /\ ret'.v_size # Len(cpp.order))
       => (cpp'.cerr = cpp.cerr + 1 /\ cpp'.m_v = cpp.m_v)]_vars

\* the state variable x of the instance is held
HeldAt(x) == ~RGreater(cpp.m_v[x], <<1000, 1>>)

\* the asymptotic value of the state variable sv at its held voltage, or at
\* the iteration voltage v when it is not held
VarinfNewton(sv, v) ==
    evalf(_substituteDefaults(self, self.varinf[sv]),
          "v" :> (IF HeldAt(ident(sv)) THEN cpp.m_v[ident(sv)] ELSE v)).val

\* the open probability at those asymptotic values
StateEnv(v) ==
    [x \in {ident(sv) : sv \in SeqRange(self.statevars)} |-> VarinfNewton(symbols(x), v)]
POpenNewton(v) == evalf(self.p_open, StateEnv(v)).val

\* sum over the state variables of dp_open/dx * dx_inf/dv, the latter zero
\* for a held variable
RECURSIVE SlopeSum(_, _)
SlopeSum(i, v) ==
    IF i > Len(self.statevars) THEN <<0, 1>>
    ELSE RAdd(RMul(evalf(diff(self.p_open, ident(self.statevars[i])), StateEnv(v)).val,
                   IF HeldAt(ident(self.statevars[i])) THEN <<0, 1>>
                   ELSE evalf(diff(_substituteDefaults(self,
                                       self.varinf[self.statevars[i]]), "v"),
                              "v" :> v).val),
              SlopeSum(i + 1, v))

\* C20: every held-voltage field starts at 10000, so that no variable is held
\* before the first setfNewtonConstant call; fNewton and DfDvNewton use the
\* asymptotic value of x at v iff m_v_x > 1000 and at m_v_x otherwise, and
\* DfDvNewton a zero voltage-derivative for a held x; after
\* setfNewtonConstant(vs) the i-th variable is held iff vs[i] <= 1000,
\* whatever it was before.
C20_HeldVoltages ==
    cpp.class # "" =>
        /\ cpp.calls = 0 =>
              \A x \in DOMAIN cpp.m_v : cpp.m_v[x] = <<10000, 1>> /\ ~HeldAt(x)
        /\ DOMAIN cpp.m_v = {ident(sv) : sv \in SeqRange(self.statevars)}
        /\ ret.op = "fNewton" =>
              ret.out.val = RMul(RSub(cpp.m_e_rev, ret.v),
                                 RSub(POpenNewton(ret.v), cpp.m_p_open_eq))
        /\ ret.op = "DfDvNewton" =>
              ret.out.val = RAdd(RNeg(RSub(POpenNewton(ret.v), cpp.m_p_open_eq)),
                                 RMul(SlopeSum(1, ret.v), RSub(cpp.m_e_rev, ret.v)))
        /\ (ret.op = "setfNewtonConstant" /\ ret.v_size = Len(cpp.order)) =>
              \A i \in 1..Len(cpp.order) :
                 /\ cpp.m_v[cpp.order[i]] = ret.vs[i]
                 /\ HeldAt(cpp.order[i]) <=> ~RGreater(ret.vs[i], <<1000, 1>>)

C20_Witness ==
    /\ defn = "NaInf"
    /\ cpp.class = "NaInf"
    /\ cpp.calls = 2
    /\ HeldAt("m")
    /\ ~HeldAt("h")
    /\ ret.op = "DfDvNewton"
    /\ ret.v = <<1, 1>>

\* the parameter lists with which the full-argument closures of o were compiled
ParamLists(o) ==
    {o.f_p_open.args}
    \cup {o[a][sv].args : a \in {"dp_dx", "df_dv", "df_dx"}, sv \in SeqRange(o.statevars)}
    \cup {o.df_dc[sv][c].args : sv \in SeqRange(o.statevars), c \in SeqRange(o.sp_c)}

\* the argument list args binds its first entry to the voltage, the entry at
\* the position of a parameter named in kwargs to the value given for that
\* name, and every other entry to the default of the parameter at that position
BoundTo(o, params, v, kwargs, args) ==
    /\ Len(args) = Len(params)
    /\ args[1] = v
    /\ \A i \in 2..Len(params) :
          IF pystr(params[i]) \in DOMAIN kwargs
          THEN args[i] = kwargs[pystr(params[i])]
          ELSE IF i <= 1 + Len(o.statevars)
          THEN /\ params[i] = ident(o.statevars[i - 1])
               /\ args[i] = Apply(o.f_varinf[o.statevars[i - 1]], <<v>>).val
          ELSE /\ params[i] = ident(o.sp_c[i - 1 - Len(o.statevars)])
               /\ args[i] = OGet(o.conc.items, o.sp_c[i - 1 - Len(o.statevars)])

\* C21: for every channel object (constructed, after setDefaultParams, or
\* reloaded) each full-argument closure was compiled for the parameters
\* voltage, state variables in statevars order, concentrations in sp_c order,
\* and every argument list that _argsAsList builds has that length and order:
\* an override given for the name k stands at the position of parameter k.
C21_ArgumentsAligned ==
    \A on \in Live :
    \A params \in ParamLists(Obj(on)) :
       /\ params = <<ident(Obj(on).sp_v)>> \o IdentSeq(Obj(on).statevars)
                      \o IdentSeq(Obj(on).sp_c)
       /\ \A v \in Volts :
          \A kwargs \in Kwargs(Obj(on)) :
          \A args \in {_argsAsList(Obj(on), v, TRUE, kwargs)} :
             args.exc = "none" => BoundTo(Obj(on), params, v, kwargs, args.val)

C21_Witness ==
    /\ defn = "SK"
    /\ "loaded" \in Live
    /\ loaded.default_params["temp"] = <<26, 1>>
    /\ ret.op = "computePOpen"
    /\ ret.on = "loaded"
    /\ DOMAIN ret.kwargs = {pystr("z")}
    /\ Len(loaded.sp_c) = 1
    /\ ret.out.exc = "none"

====
